---- MODULE Spec2Model ----
(***************************************************************************)
(* The debug-adapter-protocol message catalog and its serde codec.         *)
(*                                                                         *)
(* A wire message is a JSON value; a typed message is a value of the Rust  *)
(* catalog (requests.rs, responses.rs, events.rs, types.rs).  Every record *)
(* of the catalog is transcribed as the sequence of its fields with their  *)
(* serde attributes, and the derived Serialize / Deserialize code is       *)
(* modelled by generic operators that interpret those attributes.          *)
(***************************************************************************)
EXTENDS Integers, Sequences, FiniteSets, TLC

(***************************************************************************)
(* JSON values (serde_json::Value).  Objects are functions from member     *)
(* names to values; member names are unique.                               *)
(***************************************************************************)
JNull == [k |-> "null"]

JBool(b) == [k |-> "bool", b |-> b]

JNum(n) == [k |-> "num", n |-> n]

JStr(s) == [k |-> "str", s |-> s]

JArr(a) == [k |-> "arr", a |-> a]

JObj(o) == [k |-> "obj", o |-> o]

(***************************************************************************)
(* serde_json::Number: PosInt(u64), NegInt(i64) or Float(f64).  Magnitudes *)
(* are four 16-bit limbs, most significant first, so that the whole u64    *)
(* range is representable.  Float(m) is the number m + 1/2, standing for    *)
(* the numbers that are not integers.                                      *)
(***************************************************************************)
PosInt(m) == [c |-> "PosInt", m |-> m]

NegInt(m) == [c |-> "NegInt", m |-> m]

Float(m) == [c |-> "Float", m |-> m]

Limbs(n) == <<0, 0, n \div 65536, n % 65536>>

FitsI32(m) == m[1] = 0 /\ m[2] = 0 /\ m[3] < 32768

MinI32Limbs == <<0, 0, 32768, 0>>

Unlimbs(m) == m[3] * 65536 + m[4]

U64Max == <<65535, 65535, 65535, 65535>>

Put(o, key, value) == [x \in DOMAIN o \cup {key} |-> IF x = key THEN value ELSE o[x]]

Drop(o, key) == [x \in DOMAIN o \ {key} |-> o[x]]

(***************************************************************************)
(* Results of decoding: Ok(value) or Err(kind, what), the serde::de::Error *)
(* constructor that produced the error and its argument.                   *)
(***************************************************************************)
Ok(v) == [ok |-> TRUE, val |-> v]

Err(kind, what) == [ok |-> FALSE, kind |-> kind, what |-> what]

(***************************************************************************)
(* Option<T> is the empty set (None) or a singleton (Some).                *)
(***************************************************************************)
None == {}

Some(x) == {x}

Unwrap(o) == CHOOSE x \in o : TRUE

Min(S) == CHOOSE x \in S : \A y \in S : x <= y

(***************************************************************************)
(* Field and variant descriptors.                                          *)
(*   f    the Rust field identifier                                        *)
(*   w    the wire name (serde rename)                                     *)
(*   ty   the field's type, with Option<> stripped for mode "option"       *)
(*   mode "required" | "option" | "default" | "default_true" | "flatten"   *)
(*   skip the skip_serializing_if rule:                                    *)
(*        "never" | "is_none" | "eq_default" | "is_empty"                  *)
(***************************************************************************)
Fld(f, w, ty, mode, skip) == [f |-> f, w |-> w, ty |-> ty, mode |-> mode, skip |-> skip]

Var(v, w, payload) == [v |-> v, w |-> w, payload |-> payload]

(***************************************************************************)
(* The catalog: every record is the sequence of its serialized fields in   *)
(* declaration order (the private unit field marked serde(skip) has no     *)
(* wire presence and is left out); every enum is the sequence of its       *)
(* variants with their wire names (rename / rename_all applied) and, for   *)
(* the three tagged unions, the payload type ("" for a unit variant).      *)
(***************************************************************************)
AttachRequestArguments ==
    << Fld("restart", "__restart", "Value", "option", "is_none") >>

CancelRequestArguments ==
    << Fld("request_id", "requestId", "i32", "option", "is_none"),
       Fld("progress_id", "progressId", "String", "option", "is_none") >>

ContinueRequestArguments ==
    << Fld("thread_id", "threadId", "i32", "required", "never") >>

DisconnectRequestArguments ==
    << Fld("restart", "restart", "bool", "default", "eq_default"),
       Fld("terminate_debuggee", "terminateDebuggee", "bool", "option", "is_none"),
       Fld("suspend_debuggee", "suspendDebuggee", "bool", "default", "eq_default") >>

InitializeRequestArguments ==
    << Fld("client_id", "clientID", "String", "option", "is_none"),
       Fld("client_name", "clientName", "String", "option", "is_none"),
       Fld("adapter_id", "adapterID", "String", "required", "never"),
       Fld("locale", "locale", "String", "option", "is_none"),
       Fld("lines_start_at_1", "linesStartAt1", "bool", "default_true", "never"),
       Fld("columns_start_at_1", "columnsStartAt1", "bool", "default_true", "never"),
       Fld("path_format", "pathFormat", "PathFormat", "default", "eq_default"),
       Fld("supports_variable_type", "supportsVariableType", "bool", "default", "eq_default"),
       Fld("supports_variable_paging", "supportsVariablePaging", "bool", "default", "eq_default"),
       Fld("supports_run_in_terminal_request", "supportsRunInTerminalRequest", "bool", "default", "eq_default"),
       Fld("supports_memory_references", "supportsMemoryReferences", "bool", "default", "eq_default"),
       Fld("supports_progress_reporting", "supportsProgressReporting", "bool", "default", "eq_default"),
       Fld("supports_invalidated_event", "supportsInvalidatedEvent", "bool", "default", "eq_default") >>

LaunchRequestArguments ==
    << Fld("no_debug", "noDebug", "bool", "default", "eq_default"),
       Fld("restart", "__restart", "Value", "option", "is_none"),
       Fld("additional_attributes", "additional_attributes", "Map<String,Value>", "flatten", "never") >>

ModulesRequestArguments ==
    << Fld("start_module", "startModule", "i32", "default", "eq_default"),
       Fld("module_count", "moduleCount", "i32", "default", "eq_default") >>

NextRequestArguments ==
    << Fld("thread_id", "threadId", "i32", "required", "never"),
       Fld("granularity", "granularity", "SteppingGranularity", "default", "eq_default") >>

RunInTerminalRequestArguments ==
    << Fld("kind", "kind", "TerminalKind", "option", "is_none"),
       Fld("title", "title", "String", "option", "is_none"),
       Fld("cwd", "cwd", "String", "required", "never"),
       Fld("args", "args", "Vec<String>", "required", "never"),
       Fld("env", "env", "HashMap<String,Option<String>>", "default", "is_empty") >>

SetBreakpointsRequestArguments ==
    << Fld("source", "source", "Source", "required", "never"),
       Fld("breakpoints", "breakpoints", "Vec<SourceBreakpoint>", "default", "is_empty"),
       Fld("lines", "lines", "Vec<i32>", "default", "is_empty"),
       Fld("source_modified", "sourceModified", "bool", "default", "eq_default") >>

TerminateRequestArguments ==
    << Fld("restart", "restart", "bool", "default", "eq_default") >>

TerminateThreadsRequestArguments ==
    << Fld("thread_ids", "threadIds", "Vec<i32>", "default", "is_empty") >>

ErrorResponse ==
    << Fld("command", "command", "String", "required", "never"),
       Fld("message", "message", "String", "required", "never"),
       Fld("body", "body", "ErrorResponseBody", "required", "never") >>

ErrorResponseBody ==
    << Fld("error", "error", "Message", "option", "never") >>

ContinueResponseBody ==
    << Fld("all_threads_continued", "allThreadsContinued", "bool", "default_true", "never") >>

DataBreakpointInfoResponseBody ==
    << Fld("data_id", "dataId", "String", "option", "never"),
       Fld("description", "description", "String", "required", "never"),
       Fld("access_types", "accessTypes", "Vec<DataBreakpointAccessType>", "option", "is_none"),
       Fld("can_persist", "canPersist", "bool", "default", "eq_default") >>

ModulesResponseBody ==
    << Fld("modules", "modules", "Vec<Module>", "required", "never"),
       Fld("total_modules", "totalModules", "i32", "option", "is_none") >>

RunInTerminalResponseBody ==
    << Fld("process_id", "processId", "i32", "option", "is_none"),
       Fld("shell_process_id", "shellProcessId", "i32", "option", "is_none") >>

SetBreakpointsResponseBody ==
    << Fld("breakpoints", "breakpoints", "Vec<Breakpoint>", "required", "never") >>

SetExceptionBreakpointsResponseBody ==
    << Fld("breakpoints", "breakpoints", "Vec<Breakpoint>", "option", "is_none") >>

SetVariableResponseBody ==
    << Fld("value", "value", "String", "required", "never"),
       Fld("type_", "type", "String", "option", "is_none"),
       Fld("variables_reference", "variablesReference", "i32", "option", "is_none"),
       Fld("named_variables", "namedVariables", "i32", "option", "is_none"),
       Fld("indexed_variables", "indexedVariables", "i32", "option", "is_none") >>

ContinuedEventBody ==
    << Fld("thread_id", "threadId", "i32", "required", "never"),
       Fld("all_threads_continued", "allThreadsContinued", "bool", "default", "eq_default") >>

ExitedEventBody ==
    << Fld("exit_code", "exitCode", "i32", "required", "never") >>

ModuleEventBody ==
    << Fld("reason", "reason", "ModuleEventReason", "required", "never"),
       Fld("module", "module", "Module", "required", "never") >>

OutputEventBody ==
    << Fld("category", "category", "OutputCategory", "default", "eq_default"),
       Fld("output", "output", "String", "required", "never"),
       Fld("group", "group", "OutputGroup", "option", "is_none"),
       Fld("variables_reference", "variablesReference", "i32", "option", "is_none"),
       Fld("source", "source", "Source", "option", "is_none"),
       Fld("line", "line", "i32", "option", "is_none"),
       Fld("column", "column", "i32", "option", "is_none"),
       Fld("data", "data", "Value", "option", "is_none") >>

ProcessEventBody ==
    << Fld("name", "name", "String", "required", "never"),
       Fld("system_process_id", "systemProcessId", "i32", "option", "is_none"),
       Fld("is_local_process", "isLocalProcess", "bool", "option", "is_none"),
       Fld("start_method", "startMethod", "ProcessStartMethod", "option", "is_none"),
       Fld("pointer_size", "pointerSize", "i32", "option", "is_none") >>

StoppedEventBody ==
    << Fld("reason", "reason", "StoppedEventReason", "required", "never"),
       Fld("description", "description", "String", "option", "is_none"),
       Fld("thread_id", "threadId", "i32", "option", "is_none"),
       Fld("preserve_focus_hint", "preserveFocusHint", "bool", "default", "eq_default"),
       Fld("text", "text", "String", "option", "is_none"),
       Fld("all_threads_stopped", "allThreadsStopped", "bool", "default", "eq_default"),
       Fld("hit_breakpoint_ids", "hitBreakpointIds", "Vec<i32>", "default", "is_empty") >>

TerminatedEventBody ==
    << Fld("restart", "restart", "Value", "option", "is_none") >>

Breakpoint ==
    << Fld("id", "id", "i32", "option", "is_none"),
       Fld("verified", "verified", "bool", "required", "never"),
       Fld("message", "message", "String", "option", "is_none"),
       Fld("source", "source", "Source", "option", "is_none"),
       Fld("line", "line", "i32", "option", "is_none"),
       Fld("column", "column", "i32", "option", "is_none"),
       Fld("end_line", "endLine", "i32", "option", "is_none"),
       Fld("end_column", "endColumn", "i32", "option", "is_none"),
       Fld("instruction_reference", "instructionReference", "String", "option", "is_none"),
       Fld("offset", "offset", "i32", "option", "is_none") >>

Capabilities ==
    << Fld("supports_configuration_done_request", "supportsConfigurationDoneRequest", "bool", "default", "eq_default"),
       Fld("supports_function_breakpoints", "supportsFunctionBreakpoints", "bool", "default", "eq_default"),
       Fld("supports_conditional_breakpoints", "supportsConditionalBreakpoints", "bool", "default", "eq_default"),
       Fld("supports_hit_conditional_breakpoints", "supportsHitConditionalBreakpoints", "bool", "default", "eq_default"),
       Fld("supports_evaluate_for_hovers", "supportsEvaluateForHovers", "bool", "default", "eq_default"),
       Fld("exception_breakpoint_filters", "exceptionBreakpointFilters", "Vec<ExceptionBreakpointsFilter>", "default", "is_empty"),
       Fld("supports_step_back", "supportsStepBack", "bool", "default", "eq_default"),
       Fld("supports_set_variable", "supportsSetVariable", "bool", "default", "eq_default"),
       Fld("supports_restart_frame", "supportsRestartFrame", "bool", "default", "eq_default"),
       Fld("supports_goto_targets_request", "supportsGotoTargetsRequest", "bool", "default", "eq_default"),
       Fld("supports_step_in_targets_request", "supportsStepInTargetsRequest", "bool", "default", "eq_default"),
       Fld("supports_completions_request", "supportsCompletionsRequest", "bool", "default", "eq_default"),
       Fld("completion_trigger_characters", "completionTriggerCharacters", "Vec<String>", "option", "is_none"),
       Fld("supports_modules_request", "supportsModulesRequest", "bool", "default", "eq_default"),
       Fld("additional_module_columns", "additionalModuleColumns", "Vec<ColumnDescriptor>", "default", "is_empty"),
       Fld("supported_checksum_algorithms", "supportedChecksumAlgorithms", "Vec<ChecksumAlgorithm>", "default", "is_empty"),
       Fld("supports_restart_request", "supportsRestartRequest", "bool", "default", "eq_default"),
       Fld("supports_exception_options", "supportsExceptionOptions", "bool", "default", "eq_default"),
       Fld("supports_value_formatting_options", "supportsValueFormattingOptions", "bool", "default", "eq_default"),
       Fld("supports_exception_info_request", "supportsExceptionInfoRequest", "bool", "default", "eq_default"),
       Fld("support_terminate_debuggee", "supportTerminateDebuggee", "bool", "default", "eq_default"),
       Fld("support_suspend_debuggee", "supportSuspendDebuggee", "bool", "default", "eq_default"),
       Fld("supports_delayed_stack_trace_loading", "supportsDelayedStackTraceLoading", "bool", "default", "eq_default"),
       Fld("supports_loaded_sources_request", "supportsLoadedSourcesRequest", "bool", "default", "eq_default"),
       Fld("supports_log_points", "supportsLogPoints", "bool", "default", "eq_default"),
       Fld("supports_terminate_threads_request", "supportsTerminateThreadsRequest", "bool", "default", "eq_default"),
       Fld("supports_set_expression", "supportsSetExpression", "bool", "default", "eq_default"),
       Fld("supports_terminate_request", "supportsTerminateRequest", "bool", "default", "eq_default"),
       Fld("supports_data_breakpoints", "supportsDataBreakpoints", "bool", "default", "eq_default"),
       Fld("supports_read_memory_request", "supportsReadMemoryRequest", "bool", "default", "eq_default"),
       Fld("supports_disassemble_request", "supportsDisassembleRequest", "bool", "default", "eq_default"),
       Fld("supports_cancel_request", "supportsCancelRequest", "bool", "default", "eq_default"),
       Fld("supports_breakpoint_locations_request", "supportsBreakpointLocationsRequest", "bool", "default", "eq_default"),
       Fld("supports_clipboard_context", "supportsClipboardContext", "bool", "default", "eq_default"),
       Fld("supports_stepping_granularity", "supportsSteppingGranularity", "bool", "default", "eq_default"),
       Fld("supports_instruction_breakpoints", "supportsInstructionBreakpoints", "bool", "default", "eq_default"),
       Fld("supports_exception_filter_options", "supportsExceptionFilterOptions", "bool", "default", "eq_default") >>

Checksum ==
    << Fld("algorithm", "algorithm", "ChecksumAlgorithm", "required", "never"),
       Fld("checksum", "checksum", "String", "required", "never") >>

ColumnDescriptor ==
    << Fld("attribute_name", "attributeName", "String", "required", "never"),
       Fld("label", "label", "String", "required", "never"),
       Fld("format", "format", "String", "option", "is_none"),
       Fld("type_", "type", "ColumnDescriptorType", "default", "eq_default"),
       Fld("width", "width", "i32", "option", "is_none") >>

ExceptionBreakpointsFilter ==
    << Fld("filter", "filter", "String", "required", "never"),
       Fld("label", "label", "String", "required", "never"),
       Fld("description", "description", "String", "option", "is_none"),
       Fld("default", "default", "bool", "default", "eq_default"),
       Fld("supports_condition", "supportsCondition", "bool", "default", "eq_default"),
       Fld("condition_description", "conditionDescription", "String", "option", "is_none") >>

Message ==
    << Fld("id", "id", "i32", "required", "never"),
       Fld("format", "format", "String", "required", "never"),
       Fld("variables", "variables", "HashMap<String,String>", "default", "is_empty"),
       Fld("send_telemetry", "sendTelemetry", "bool", "default", "eq_default"),
       Fld("show_user", "showUser", "bool", "default", "eq_default"),
       Fld("url", "url", "String", "option", "is_none"),
       Fld("url_label", "urlLabel", "String", "option", "is_none") >>

Module ==
    << Fld("id", "id", "ModuleId", "required", "never"),
       Fld("name", "name", "String", "required", "never"),
       Fld("path", "path", "String", "option", "is_none"),
       Fld("is_optimized", "isOptimized", "bool", "option", "is_none"),
       Fld("is_user_code", "isUserCode", "bool", "option", "is_none"),
       Fld("version", "version", "String", "option", "is_none"),
       Fld("symbol_status", "symbolStatus", "String", "option", "is_none"),
       Fld("symbol_file_path", "symbolFilePath", "String", "option", "is_none"),
       Fld("date_time_stamp", "dateTimeStamp", "String", "option", "is_none"),
       Fld("address_range", "addressRange", "String", "option", "is_none") >>

Source ==
    << Fld("name", "name", "String", "option", "is_none"),
       Fld("path", "path", "String", "option", "is_none"),
       Fld("source_reference", "sourceReference", "i32", "option", "is_none"),
       Fld("presentation_hint", "presentationHint", "SourcePresentationHint", "option", "is_none"),
       Fld("origin", "origin", "String", "option", "is_none"),
       Fld("sources", "sources", "Vec<Source>", "default", "is_empty"),
       Fld("adapter_data", "adapterData", "Value", "option", "is_none"),
       Fld("checksums", "checksums", "Vec<Checksum>", "default", "is_empty") >>

SourceBreakpoint ==
    << Fld("line", "line", "i32", "required", "never"),
       Fld("column", "column", "i32", "option", "is_none"),
       Fld("condition", "condition", "String", "option", "is_none"),
       Fld("hit_condition", "hitCondition", "String", "option", "is_none"),
       Fld("log_message", "logMessage", "String", "option", "is_none") >>

PathFormat ==
    << Var("Path", "path", ""),
       Var("URI", "uri", "") >>

SteppingGranularity ==
    << Var("Statement", "statement", ""),
       Var("Line", "line", ""),
       Var("Instruction", "instruction", "") >>

TerminalKind ==
    << Var("Integrated", "integrated", ""),
       Var("External", "external", "") >>

DataBreakpointAccessType ==
    << Var("Read", "read", ""),
       Var("Write", "write", ""),
       Var("ReadWrite", "readWrite", "") >>

ModuleEventReason ==
    << Var("New", "new", ""),
       Var("Changed", "changed", ""),
       Var("Removed", "removed", "") >>

OutputCategory ==
    << Var("Console", "console", ""),
       Var("Important", "important", ""),
       Var("Stdout", "stdout", ""),
       Var("Stderr", "stderr", ""),
       Var("Telemetry", "telemetry", "") >>

OutputGroup ==
    << Var("Start", "start", ""),
       Var("StartCollapsed", "startCollapsed", ""),
       Var("End", "end", "") >>

ProcessStartMethod ==
    << Var("Launch", "launch", ""),
       Var("Attach", "attach", ""),
       Var("AttachForSuspendedLaunch", "attachForSuspendedLaunch", "") >>

StoppedEventReason ==
    << Var("Step", "step", ""),
       Var("Breakpoint", "breakpoint", ""),
       Var("Exception", "exception", ""),
       Var("Pause", "pause", ""),
       Var("Entry", "entry", ""),
       Var("Goto", "goto", ""),
       Var("FunctionBreakpoint", "function breakpoint", ""),
       Var("DataBreakpoint", "data breakpoint", ""),
       Var("InstructionBreakpoint", "instruction breakpoint", "") >>

ChecksumAlgorithm ==
    << Var("MD5", "MD5", ""),
       Var("SHA1", "SHA1", ""),
       Var("SHA256", "SHA256", ""),
       Var("Timestamp", "timestamp", "") >>

ColumnDescriptorType ==
    << Var("String", "string", ""),
       Var("Number", "number", ""),
       Var("Boolean", "boolean", ""),
       Var("UnixTimestampUTC", "unixTimestampUTC", "") >>

SourcePresentationHint ==
    << Var("Normal", "normal", ""),
       Var("Emphasize", "emphasize", ""),
       Var("Deemphasize", "deemphasize", "") >>

Request ==
    << Var("Attach", "attach", "AttachRequestArguments"),
       Var("BreakpointLocations", "breakpointLocations", "BreakpointLocationsRequestArguments"),
       Var("Cancel", "cancel", "CancelRequestArguments"),
       Var("Completions", "completions", "CompletionsRequestArguments"),
       Var("ConfigurationDone", "configurationDone", ""),
       Var("Continue", "continue", "ContinueRequestArguments"),
       Var("DataBreakpointInfo", "dataBreakpointInfo", "DataBreakpointInfoRequestArguments"),
       Var("Disassemble", "disassemble", "DisassembleRequestArguments"),
       Var("Disconnect", "disconnect", "DisconnectRequestArguments"),
       Var("Evaluate", "evaluate", "EvaluateRequestArguments"),
       Var("ExceptionInfo", "exceptionInfo", "ExceptionInfoRequestArguments"),
       Var("Goto", "goto", "GotoRequestArguments"),
       Var("GotoTargets", "gotoTargets", "GotoTargetsRequestArguments"),
       Var("Initialize", "initialize", "InitializeRequestArguments"),
       Var("Launch", "launch", "LaunchRequestArguments"),
       Var("LoadedSources", "loadedSources", ""),
       Var("Modules", "modules", "ModulesRequestArguments"),
       Var("Next", "next", "NextRequestArguments"),
       Var("Pause", "pause", "PauseRequestArguments"),
       Var("ReadMemory", "readMemory", "ReadMemoryRequestArguments"),
       Var("RestartFrame", "restartFrame", "RestartFrameRequestArguments"),
       Var("ReverseContinue", "reverseContinue", "ReverseContinueRequestArguments"),
       Var("RunInTerminal", "runInTerminal", "RunInTerminalRequestArguments"),
       Var("Scopes", "scopes", "ScopesRequestArguments"),
       Var("SetBreakpoints", "setBreakpoints", "SetBreakpointsRequestArguments"),
       Var("SetDataBreakpoints", "setDataBreakpoints", "SetDataBreakpointsRequestArguments"),
       Var("SetExceptionBreakpoints", "setExceptionBreakpoints", "SetExceptionBreakpointsRequestArguments"),
       Var("SetExpression", "setExpression", "SetExpressionRequestArguments"),
       Var("SetFunctionBreakpoints", "setFunctionBreakpoints", "SetFunctionBreakpointsRequestArguments"),
       Var("SetInstructionBreakpoints", "setInstructionBreakpoints", "SetInstructionBreakpointsRequestArguments"),
       Var("SetVariable", "setVariable", "SetVariableRequestArguments"),
       Var("Source", "source", "SourceRequestArguments"),
       Var("StackTrace", "stackTrace", "StackTraceRequestArguments"),
       Var("StepBack", "stepBack", "StepBackRequestArguments"),
       Var("StepIn", "stepIn", "StepInRequestArguments"),
       Var("StepInTargets", "stepInTargets", "StepInTargetsRequestArguments"),
       Var("StepOut", "stepOut", "StepOutRequestArguments"),
       Var("Terminate", "terminate", "TerminateRequestArguments"),
       Var("TerminateThreads", "terminateThreads", "TerminateThreadsRequestArguments"),
       Var("Threads", "threads", ""),
       Var("Variables", "variables", "VariablesRequestArguments") >>

SuccessResponse ==
    << Var("Attach", "attach", ""),
       Var("BreakpointLocations", "breakpointLocations", "BreakpointLocationsResponseBody"),
       Var("Cancel", "cancel", ""),
       Var("Completions", "completions", "CompletionsResponseBody"),
       Var("ConfigurationDone", "configurationDone", ""),
       Var("Continue", "continue", "ContinueResponseBody"),
       Var("DataBreakpointInfo", "dataBreakpointInfo", "DataBreakpointInfoResponseBody"),
       Var("Disassemble", "disassemble", "DisassembleResponseBody"),
       Var("Disconnect", "disconnect", ""),
       Var("Evaluate", "evaluate", "EvaluateResponseBody"),
       Var("ExceptionInfo", "exceptionInfo", "ExceptionInfoResponseBody"),
       Var("Goto", "goto", ""),
       Var("GotoTargets", "gotoTargets", "GotoTargetsResponseBody"),
       Var("Initialize", "initialize", "Capabilities"),
       Var("Launch", "launch", ""),
       Var("LoadedSources", "loadedSources", "LoadedSourcesResponseBody"),
       Var("Modules", "modules", "ModulesResponseBody"),
       Var("Next", "next", ""),
       Var("Pause", "pause", ""),
       Var("ReadMemory", "readMemory", "ReadMemoryResponseBody"),
       Var("RestartFrame", "restartFrame", ""),
       Var("Restart", "restart", ""),
       Var("ReverseContinue", "reverseContinue", ""),
       Var("RunInTerminal", "runInTerminal", "RunInTerminalResponseBody"),
       Var("Scopes", "scopes", "ScopesResponseBody"),
       Var("SetBreakpoints", "setBreakpoints", "SetBreakpointsResponseBody"),
       Var("SetDataBreakpoints", "setDataBreakpoints", "SetDataBreakpointsResponseBody"),
       Var("SetExceptionBreakpoints", "setExceptionBreakpoints", "SetExceptionBreakpointsResponseBody"),
       Var("SetExpression", "setExpression", "SetExpressionResponseBody"),
       Var("SetFunctionBreakpoints", "setFunctionBreakpoints", "SetFunctionBreakpointsResponseBody"),
       Var("SetInstructionBreakpoints", "setInstructionBreakpoints", "SetInstructionBreakpointsResponseBody"),
       Var("SetVariable", "setVariable", "SetVariableResponseBody"),
       Var("Source", "source", "SourceResponseBody"),
       Var("StackTrace", "stackTrace", "StackTraceResponseBody"),
       Var("StepBack", "stepBack", ""),
       Var("StepIn", "stepIn", ""),
       Var("StepInTargets", "stepInTargets", "StepInTargetsResponseBody"),
       Var("StepOut", "stepOut", ""),
       Var("Terminate", "terminate", ""),
       Var("TerminateThreads", "terminateThreads", ""),
       Var("Threads", "threads", "ThreadsResponseBody"),
       Var("Variables", "variables", "VariablesResponseBody") >>

Event ==
    << Var("Breakpoint", "breakpoint", "BreakpointEventBody"),
       Var("Capabilities", "capabilities", "CapabilitiesEventBody"),
       Var("Continued", "continued", "ContinuedEventBody"),
       Var("Exited", "exited", "ExitedEventBody"),
       Var("Initialized", "initialized", ""),
       Var("Invalidated", "invalidated", "InvalidatedEventBody"),
       Var("LoadedSource", "loadedSource", "LoadedSourceEventBody"),
       Var("Module", "module", "ModuleEventBody"),
       Var("Output", "output", "OutputEventBody"),
       Var("Process", "process", "ProcessEventBody"),
       Var("ProgressEnd", "progressEnd", "ProgressEndEventBody"),
       Var("ProgressStart", "progressStart", "ProgressStartEventBody"),
       Var("ProgressUpdate", "progressUpdate", "ProgressUpdateEventBody"),
       Var("Stopped", "stopped", "StoppedEventBody"),
       Var("Terminated", "terminated", "TerminatedEventBody"),
       Var("Thread", "thread", "ThreadEventBody") >>

StructNames ==
    {"AttachRequestArguments",
     "CancelRequestArguments",
     "ContinueRequestArguments",
     "DisconnectRequestArguments",
     "InitializeRequestArguments",
     "LaunchRequestArguments",
     "ModulesRequestArguments",
     "NextRequestArguments",
     "RunInTerminalRequestArguments",
     "SetBreakpointsRequestArguments",
     "TerminateRequestArguments",
     "TerminateThreadsRequestArguments",
     "ErrorResponse",
     "ErrorResponseBody",
     "ContinueResponseBody",
     "DataBreakpointInfoResponseBody",
     "ModulesResponseBody",
     "RunInTerminalResponseBody",
     "SetBreakpointsResponseBody",
     "SetExceptionBreakpointsResponseBody",
     "SetVariableResponseBody",
     "ContinuedEventBody",
     "ExitedEventBody",
     "ModuleEventBody",
     "OutputEventBody",
     "ProcessEventBody",
     "StoppedEventBody",
     "TerminatedEventBody",
     "Breakpoint",
     "Capabilities",
     "Checksum",
     "ColumnDescriptor",
     "ExceptionBreakpointsFilter",
     "Message",
     "Module",
     "Source",
     "SourceBreakpoint"}

StructDef(ty) ==
    CASE ty = "AttachRequestArguments" -> AttachRequestArguments
      [] ty = "CancelRequestArguments" -> CancelRequestArguments
      [] ty = "ContinueRequestArguments" -> ContinueRequestArguments
      [] ty = "DisconnectRequestArguments" -> DisconnectRequestArguments
      [] ty = "InitializeRequestArguments" -> InitializeRequestArguments
      [] ty = "LaunchRequestArguments" -> LaunchRequestArguments
      [] ty = "ModulesRequestArguments" -> ModulesRequestArguments
      [] ty = "NextRequestArguments" -> NextRequestArguments
      [] ty = "RunInTerminalRequestArguments" -> RunInTerminalRequestArguments
      [] ty = "SetBreakpointsRequestArguments" -> SetBreakpointsRequestArguments
      [] ty = "TerminateRequestArguments" -> TerminateRequestArguments
      [] ty = "TerminateThreadsRequestArguments" -> TerminateThreadsRequestArguments
      [] ty = "ErrorResponse" -> ErrorResponse
      [] ty = "ErrorResponseBody" -> ErrorResponseBody
      [] ty = "ContinueResponseBody" -> ContinueResponseBody
      [] ty = "DataBreakpointInfoResponseBody" -> DataBreakpointInfoResponseBody
      [] ty = "ModulesResponseBody" -> ModulesResponseBody
      [] ty = "RunInTerminalResponseBody" -> RunInTerminalResponseBody
      [] ty = "SetBreakpointsResponseBody" -> SetBreakpointsResponseBody
      [] ty = "SetExceptionBreakpointsResponseBody" -> SetExceptionBreakpointsResponseBody
      [] ty = "SetVariableResponseBody" -> SetVariableResponseBody
      [] ty = "ContinuedEventBody" -> ContinuedEventBody
      [] ty = "ExitedEventBody" -> ExitedEventBody
      [] ty = "ModuleEventBody" -> ModuleEventBody
      [] ty = "OutputEventBody" -> OutputEventBody
      [] ty = "ProcessEventBody" -> ProcessEventBody
      [] ty = "StoppedEventBody" -> StoppedEventBody
      [] ty = "TerminatedEventBody" -> TerminatedEventBody
      [] ty = "Breakpoint" -> Breakpoint
      [] ty = "Capabilities" -> Capabilities
      [] ty = "Checksum" -> Checksum
      [] ty = "ColumnDescriptor" -> ColumnDescriptor
      [] ty = "ExceptionBreakpointsFilter" -> ExceptionBreakpointsFilter
      [] ty = "Message" -> Message
      [] ty = "Module" -> Module
      [] ty = "Source" -> Source
      [] ty = "SourceBreakpoint" -> SourceBreakpoint

EnumNames ==
    {"PathFormat",
     "SteppingGranularity",
     "TerminalKind",
     "DataBreakpointAccessType",
     "ModuleEventReason",
     "OutputCategory",
     "OutputGroup",
     "ProcessStartMethod",
     "StoppedEventReason",
     "ChecksumAlgorithm",
     "ColumnDescriptorType",
     "SourcePresentationHint"}

EnumDef(ty) ==
    CASE ty = "PathFormat" -> PathFormat
      [] ty = "SteppingGranularity" -> SteppingGranularity
      [] ty = "TerminalKind" -> TerminalKind
      [] ty = "DataBreakpointAccessType" -> DataBreakpointAccessType
      [] ty = "ModuleEventReason" -> ModuleEventReason
      [] ty = "OutputCategory" -> OutputCategory
      [] ty = "OutputGroup" -> OutputGroup
      [] ty = "ProcessStartMethod" -> ProcessStartMethod
      [] ty = "StoppedEventReason" -> StoppedEventReason
      [] ty = "ChecksumAlgorithm" -> ChecksumAlgorithm
      [] ty = "ColumnDescriptorType" -> ColumnDescriptorType
      [] ty = "SourcePresentationHint" -> SourcePresentationHint

VecTypes ==
    {"Vec<Breakpoint>", "Vec<Checksum>", "Vec<ChecksumAlgorithm>", "Vec<ColumnDescriptor>", "Vec<DataBreakpointAccessType>", "Vec<ExceptionBreakpointsFilter>", "Vec<Module>", "Vec<Source>", "Vec<SourceBreakpoint>", "Vec<String>", "Vec<i32>"}

VecElem(ty) ==
    CASE ty = "Vec<Breakpoint>" -> "Breakpoint"
      [] ty = "Vec<Checksum>" -> "Checksum"
      [] ty = "Vec<ChecksumAlgorithm>" -> "ChecksumAlgorithm"
      [] ty = "Vec<ColumnDescriptor>" -> "ColumnDescriptor"
      [] ty = "Vec<DataBreakpointAccessType>" -> "DataBreakpointAccessType"
      [] ty = "Vec<ExceptionBreakpointsFilter>" -> "ExceptionBreakpointsFilter"
      [] ty = "Vec<Module>" -> "Module"
      [] ty = "Vec<Source>" -> "Source"
      [] ty = "Vec<SourceBreakpoint>" -> "SourceBreakpoint"
      [] ty = "Vec<String>" -> "String"
      [] ty = "Vec<i32>" -> "i32"

(***************************************************************************)
(* Default::default() of the field types, as used by serde(default) on     *)
(* decode and by eq_default on encode.                                     *)
(***************************************************************************)
DefaultPathFormatURI == "URI"

DefaultPathFormat == "Path"

DefaultSteppingGranularity == "Statement"

DefaultOutputCategory == "Console"

DefaultColumnDescriptorType == "String"

EnumDefault(ty) ==
    CASE ty = "PathFormat" -> DefaultPathFormat
      [] ty = "SteppingGranularity" -> DefaultSteppingGranularity
      [] ty = "OutputCategory" -> DefaultOutputCategory
      [] ty = "ColumnDescriptorType" -> DefaultColumnDescriptorType

DefaultOfSet(ty) ==
    CASE ty = "bool" -> TRUE
      [] ty = "i32" -> 0
      [] ty \in EnumNames -> EnumDefault(ty)
      [] OTHER -> <<>>

DefaultOf(ty) ==
    CASE ty = "bool" -> FALSE
      [] ty = "i32" -> 0
      [] ty \in EnumNames -> EnumDefault(ty)
      [] OTHER -> <<>>

true_ == TRUE

eq_default(ty, v) == v = DefaultOf(ty)

(***************************************************************************)
(* Scalars.                                                                *)
(***************************************************************************)
MaxI32 == 2147483647

MinI32 == (0 - MaxI32) - 1

DecodeBool(j) == IF j.k = "bool" THEN Ok(j.b) ELSE Err("invalid_type", "bool")

DecodeString(j) == IF j.k = "str" THEN Ok(j.s) ELSE Err("invalid_type", "String")

DecodeI32(j) ==
    IF j.k # "num" THEN Err("invalid_type", "i32")
    ELSE CASE j.n.c = "PosInt" ->
                IF FitsI32(j.n.m) THEN Ok(Unlimbs(j.n.m)) ELSE Err("invalid_value", "i32")
           [] j.n.c = "NegInt" ->
                IF FitsI32(j.n.m) THEN Ok(0 - Unlimbs(j.n.m))
                ELSE IF j.n.m = MinI32Limbs THEN Ok(MinI32)
                ELSE Err("invalid_value", "i32")
           [] OTHER -> Err("invalid_type", "i32")

DecodeU64Low32(j) ==
    IF j.k # "num" THEN Err("invalid_type", "u64")
    ELSE CASE j.n.c = "PosInt" -> Ok(<<0, 0, j.n.m[3], j.n.m[4]>>)
           [] j.n.c = "NegInt" -> Err("invalid_value", "u64")
           [] OTHER -> Err("invalid_type", "u64")

DecodeU64(j) ==
    IF j.k # "num" THEN Err("invalid_type", "u64")
    ELSE CASE j.n.c = "PosInt" -> Ok(j.n.m)
           [] j.n.c = "NegInt" -> Err("invalid_value", "u64")
           [] OTHER -> Err("invalid_type", "u64")

EncodeI32(n) ==
    IF n >= 0 THEN JNum(PosInt(Limbs(n)))
    ELSE IF n = MinI32 THEN JNum(NegInt(MinI32Limbs))
    ELSE JNum(NegInt(Limbs(0 - n)))

EncodeU64(m) == JNum(PosInt(m))

(***************************************************************************)
(* Enums of unit variants: the wire form is the variant's wire name; the   *)
(* externally tagged map form {"name": null} is accepted as well.          *)
(***************************************************************************)
VariantByWireOrFirst(vs, w) ==
    LET hit == {i \in DOMAIN vs : vs[i].w = w}
    IN  IF hit = {} THEN Ok(vs[1]) ELSE Ok(vs[Min(hit)])

VariantByWire(vs, w) ==
    LET hit == {i \in DOMAIN vs : vs[i].w = w}
    IN  IF hit = {} THEN Err("unknown_variant", w) ELSE Ok(vs[Min(hit)])

VariantByName(vs, v) == vs[CHOOSE i \in DOMAIN vs : vs[i].v = v]

DecodeEnumOrFirst(ty, j) ==
    CASE j.k = "str" ->
            LET r == VariantByWire(EnumDef(ty), j.s)
            IN  IF r.ok THEN Ok(r.val.v) ELSE Ok(EnumDef(ty)[1].v)
      [] j.k = "obj" /\ Cardinality(DOMAIN j.o) = 1 ->
            LET w == CHOOSE x \in DOMAIN j.o : TRUE
                r == VariantByWire(EnumDef(ty), w)
            IN  IF ~r.ok THEN r
                ELSE IF j.o[w] = JNull THEN Ok(r.val.v)
                ELSE Err("invalid_type", "unit variant")
      [] OTHER -> Err("invalid_type", ty)

DecodeEnum(ty, j) ==
    CASE j.k = "str" ->
            LET r == VariantByWire(EnumDef(ty), j.s)
            IN  IF r.ok THEN Ok(r.val.v) ELSE r
      [] j.k = "obj" /\ Cardinality(DOMAIN j.o) = 1 ->
            LET w == CHOOSE x \in DOMAIN j.o : TRUE
                r == VariantByWire(EnumDef(ty), w)
            IN  IF ~r.ok THEN r
                ELSE IF j.o[w] = JNull THEN Ok(r.val.v)
                ELSE Err("invalid_type", "unit variant")
      [] OTHER -> Err("invalid_type", ty)

EncodeEnum(ty, v) == JStr(VariantByName(EnumDef(ty), v).w)

(***************************************************************************)
(* ModuleId is untagged: the variants are tried in declaration order.      *)
(***************************************************************************)
DecodeModuleId(j) ==
    IF DecodeI32(j).ok THEN Ok("Integer" :> DecodeI32(j).val)
    ELSE IF DecodeString(j).ok THEN Ok("String" :> DecodeString(j).val)
    ELSE Err("custom", "data did not match any variant of untagged enum ModuleId")

EncodeModuleId(v) ==
    IF "Integer" \in DOMAIN v THEN EncodeI32(v["Integer"]) ELSE JStr(v["String"])

(***************************************************************************)
(* String-keyed maps.                                                      *)
(***************************************************************************)
DecodeStringMap(j) ==
    IF j.k # "obj" THEN Err("invalid_type", "map")
    ELSE IF \E x \in DOMAIN j.o : j.o[x].k # "str" THEN Err("invalid_type", "String")
    ELSE Ok([x \in DOMAIN j.o |-> j.o[x].s])

DecodeOptStringMap(j) ==
    IF j.k # "obj" THEN Err("invalid_type", "map")
    ELSE IF \E x \in DOMAIN j.o : j.o[x].k \notin {"str", "null"} THEN Err("invalid_type", "String")
    ELSE Ok([x \in DOMAIN j.o |-> IF j.o[x].k = "null" THEN None ELSE Some(j.o[x].s)])

EncodeStringMap(v) == JObj([x \in DOMAIN v |-> JStr(v[x])])

EncodeOptStringMap(v) == JObj([x \in DOMAIN v |-> IF v[x] = None THEN JNull ELSE JStr(Unwrap(v[x]))])


(***************************************************************************)
(* The derived Deserialize of a record.  A field that is present is        *)
(* decoded by its type (an Option field maps null to None); a field that   *)
(* is absent takes None, its default, or fails with missing_field.  Names  *)
(* the record does not declare are ignored, or collected by the record's   *)
(* flatten field.  Errors of present fields are raised while the members   *)
(* are visited, missing fields after the last member.                      *)
(***************************************************************************)
RECURSIVE DecodeType(_, _)

FieldAbsentOptionOnly(fd) ==
    IF fd.mode = "option" THEN Ok(None) ELSE Err("missing_field", fd.w)

FieldAbsentRustName(fd) ==
    CASE fd.mode = "option" -> Ok(None)
      [] fd.mode = "default" -> Ok(DefaultOf(fd.ty))
      [] fd.mode = "default_true" -> Ok(true_)
      [] OTHER -> Err("missing_field", fd.f)

FieldAbsent(fd) ==
    CASE fd.mode = "option" -> Ok(None)
      [] fd.mode = "default" -> Ok(DefaultOf(fd.ty))
      [] fd.mode = "default_true" -> Ok(true_)
      [] OTHER -> Err("missing_field", fd.w)

OkSome(r) == IF r.ok THEN Ok(Some(r.val)) ELSE r

DecodeOptionStrict(ty, j) == OkSome(DecodeType(ty, j))

DecodeOption(ty, j) == IF j = JNull THEN Ok(None) ELSE OkSome(DecodeType(ty, j))

FieldPresent(fd, j) ==
    IF fd.mode = "option" THEN DecodeOption(fd.ty, j) ELSE DecodeType(fd.ty, j)

Declared(fs) == {fs[i].w : i \in {n \in DOMAIN fs : fs[n].mode # "flatten"}}

CollectedAll(fs, o) == o

Collected(fs, o) == [x \in DOMAIN o \ Declared(fs) |-> o[x]]

DecodeFieldByRustName(fs, fd, o) ==
    IF fd.mode = "flatten" THEN Ok(Collected(fs, o))
    ELSE IF fd.f \in DOMAIN o THEN FieldPresent(fd, o[fd.f])
    ELSE FieldAbsent(fd)

DecodeField(fs, fd, o) ==
    IF fd.mode = "flatten" THEN Ok(Collected(fs, o))
    ELSE IF fd.w \in DOMAIN o THEN FieldPresent(fd, o[fd.w])
    ELSE FieldAbsent(fd)

Assemble(fs, present, res) ==
    LET bad == {i \in DOMAIN fs : ~res[i].ok}
        badPresent == {i \in bad : fs[i].w \in present}
    IN  IF badPresent # {} THEN res[Min(badPresent)]
        ELSE IF bad # {} THEN res[Min(bad)]
        ELSE Ok([x \in {fs[i].f : i \in DOMAIN fs} |->
                    res[CHOOSE i \in DOMAIN fs : fs[i].f = x].val])

DecodeStructMapDenyUnknown(fs, o) ==
    IF DOMAIN o \ {fs[i].w : i \in DOMAIN fs} # {} THEN Err("unknown_field", "")
    ELSE Assemble(fs, DOMAIN o, [i \in DOMAIN fs |-> DecodeField(fs, fs[i], o)])

DecodeStructMap(fs, o) ==
    Assemble(fs, DOMAIN o, [i \in DOMAIN fs |-> DecodeField(fs, fs[i], o)])

DecodeStructSeq(fs, a) ==
    IF Len(a) # Len(fs) THEN Err("invalid_length", ToString(Len(a)))
    ELSE Assemble(fs, {}, [i \in DOMAIN fs |-> FieldPresent(fs[i], a[i])])

DecodeFields(fs, ty, j) ==
    CASE j.k = "obj" -> DecodeStructMap(fs, j.o)
      [] j.k = "arr" /\ \A i \in DOMAIN fs : fs[i].mode # "flatten" -> DecodeStructSeq(fs, j.a)
      [] OTHER -> Err("invalid_type", ty)

DecodeStruct(ty, j) == DecodeFields(StructDef(ty), ty, j)

AssembleVec(res) ==
    LET bad == {i \in DOMAIN res : ~res[i].ok}
    IN  IF bad # {} THEN res[Min(bad)] ELSE Ok([i \in DOMAIN res |-> res[i].val])

DecodeVec(elem, j) ==
    IF j.k # "arr" THEN Err("invalid_type", "sequence")
    ELSE AssembleVec([i \in DOMAIN j.a |-> DecodeType(elem, j.a[i])])

DecodeType(ty, j) ==
    CASE ty = "bool" -> DecodeBool(j)
      [] ty = "i32" -> DecodeI32(j)
      [] ty = "String" -> DecodeString(j)
      [] ty = "Value" -> Ok(j)
      [] ty = "SequenceNumber" -> DecodeU64(j)
      [] ty = "ModuleId" -> DecodeModuleId(j)
      [] ty = "HashMap<String,String>" -> DecodeStringMap(j)
      [] ty = "HashMap<String,Option<String>>" -> DecodeOptStringMap(j)
      [] ty \in EnumNames -> DecodeEnum(ty, j)
      [] ty \in VecTypes -> DecodeVec(VecElem(ty), j)
      [] ty \in StructNames -> DecodeStruct(ty, j)

(***************************************************************************)
(* The derived Serialize of a record: the fields in declaration order,     *)
(* each unless its skip_serializing_if rule holds of its value; the        *)
(* entries of a flatten field are written as members of the record itself. *)
(***************************************************************************)
RECURSIVE EncodeType(_, _)

SkipSerializingNever(fd, v) == FALSE

SkipSerializing(fd, v) ==
    CASE fd.skip = "is_none" -> v = None
      [] fd.skip = "eq_default" -> eq_default(fd.ty, v)
      [] fd.skip = "is_empty" -> DOMAIN v = {}
      [] OTHER -> FALSE

EncodeField(fd, v) ==
    IF fd.mode = "option"
    THEN IF v = None THEN JNull ELSE EncodeType(fd.ty, Unwrap(v))
    ELSE EncodeType(fd.ty, v)

FlattenedDropped(fs, v) == <<>>

Flattened(fs, v) ==
    LET fl == {i \in DOMAIN fs : fs[i].mode = "flatten"}
    IN  IF fl = {} THEN <<>> ELSE v[fs[Min(fl)].f]

Emitted(fs, v) ==
    {fs[i].w : i \in {n \in DOMAIN fs : fs[n].mode # "flatten" /\ ~SkipSerializing(fs[n], v[fs[n].f])}}

FieldByWire(fs, w) == fs[CHOOSE i \in DOMAIN fs : fs[i].mode # "flatten" /\ fs[i].w = w]

EncodeFields(fs, v) ==
    [x \in Emitted(fs, v) |-> EncodeField(FieldByWire(fs, x), v[FieldByWire(fs, x).f])]
        @@ Flattened(fs, v)

EncodeStruct(ty, v) == EncodeFields(StructDef(ty), v)

EncodeVec(elem, v) == JArr([i \in DOMAIN v |-> EncodeType(elem, v[i])])

EncodeType(ty, v) ==
    CASE ty = "bool" -> JBool(v)
      [] ty = "i32" -> EncodeI32(v)
      [] ty = "String" -> JStr(v)
      [] ty = "Value" -> v
      [] ty = "SequenceNumber" -> EncodeU64(v)
      [] ty = "ModuleId" -> EncodeModuleId(v)
      [] ty = "HashMap<String,String>" -> EncodeStringMap(v)
      [] ty = "HashMap<String,Option<String>>" -> EncodeOptStringMap(v)
      [] ty \in EnumNames -> EncodeEnum(ty, v)
      [] ty \in VecTypes -> EncodeVec(VecElem(ty), v)
      [] ty \in StructNames -> JObj(EncodeStruct(ty, v))


(***************************************************************************)
(* Adjacently tagged unions (Request: command / arguments, SuccessResponse *)
(* : command / body, Event: event / body).  A typed union value is the     *)
(* one-member function from its variant's name to its payload.             *)
(***************************************************************************)
Unit == "()"

VariantOf(u) == CHOOSE x \in DOMAIN u : TRUE

DecodeUnitContentAny(var, content, o) == Ok(var.v :> Unit)

DecodeUnitContentRequired(var, content, o) ==
    IF content \notin DOMAIN o THEN Err("missing_field", content)
    ELSE IF o[content] = JNull THEN Ok(var.v :> Unit)
    ELSE Err("invalid_type", "unit variant")

DecodeUnitContent(var, content, o) ==
    IF content \notin DOMAIN o \/ o[content] = JNull THEN Ok(var.v :> Unit)
    ELSE Err("invalid_type", "unit variant")

Tagged(name, r) == IF r.ok THEN Ok(name :> r.val) ELSE r

DecodeNewtypeContent(var, content, o) ==
    IF content \notin DOMAIN o THEN Err("missing_field", content)
    ELSE Tagged(var.v, DecodeType(var.payload, o[content]))

DecodeVariant(r, content, o) ==
    IF ~r.ok THEN r
    ELSE IF r.val.payload = "" THEN DecodeUnitContent(r.val, content, o)
    ELSE DecodeNewtypeContent(r.val, content, o)

DecodeAdjacent(vs, tag, content, o) ==
    IF tag \notin DOMAIN o THEN Err("missing_field", tag)
    ELSE IF o[tag].k # "str" THEN Err("invalid_type", "variant identifier")
    ELSE DecodeVariant(VariantByWire(vs, o[tag].s), content, o)

EncodeVariant(var, tag, content, u) ==
    IF var.payload = "" THEN tag :> JStr(var.w)
    ELSE (tag :> JStr(var.w)) @@ (content :> EncodeType(var.payload, u[var.v]))

EncodeAdjacent(vs, tag, content, u) ==
    EncodeVariant(VariantByName(vs, VariantOf(u)), tag, content, u)

DecodeRequest(o) == DecodeAdjacent(Request, "command", "arguments", o)

EncodeRequest(u) == EncodeAdjacent(Request, "command", "arguments", u)

DecodeSuccessResponse(o) == DecodeAdjacent(SuccessResponse, "command", "body", o)

EncodeSuccessResponse(u) == EncodeAdjacent(SuccessResponse, "command", "body", u)

DecodeEvent(o) == DecodeAdjacent(Event, "event", "body", o)

EncodeEvent(u) == EncodeAdjacent(Event, "event", "body", u)

(***************************************************************************)
(* Response: request_seq plus the flattened result.  The result is decoded *)
(* from the buffered object: `success` selects the arm, and an error of    *)
(* the arm's own decoding is re-raised as a custom error carrying its      *)
(* text.                                                                   *)
(***************************************************************************)
Custom(r) == IF r.ok THEN r ELSE Err("custom", r.kind \o " " \o r.what)

deserialize_response_result_default(o) ==
    IF "success" \in DOMAIN o /\ o["success"] = JBool(TRUE)
    THEN Custom(Tagged("Ok", DecodeSuccessResponse(o)))
    ELSE Custom(Tagged("Err", DecodeStruct("ErrorResponse", JObj(o))))

deserialize_response_result(o) ==
    IF "success" \notin DOMAIN o THEN Err("missing_field", "success")
    ELSE IF o["success"].k # "bool" THEN Err("invalid_type", "success bool")
    ELSE IF o["success"].b
    THEN Custom(Tagged("Ok", DecodeSuccessResponse(o)))
    ELSE Custom(Tagged("Err", DecodeStruct("ErrorResponse", JObj(o))))

serialize_response_result_implicit(result) ==
    IF "Ok" \in DOMAIN result
    THEN EncodeSuccessResponse(result["Ok"])
    ELSE ("success" :> JBool(FALSE)) @@ EncodeStruct("ErrorResponse", result["Err"])

serialize_response_result(result) ==
    IF "Ok" \in DOMAIN result
    THEN ("success" :> JBool(TRUE)) @@ EncodeSuccessResponse(result["Ok"])
    ELSE ("success" :> JBool(FALSE)) @@ EncodeStruct("ErrorResponse", result["Err"])

DecodeSeq(name, o) ==
    IF name \in DOMAIN o THEN DecodeU64(o[name]) ELSE Err("missing_field", name)

ResponseOf(seq, res) ==
    IF ~seq.ok THEN seq
    ELSE IF ~res.ok THEN res
    ELSE Ok([request_seq |-> seq.val, result |-> res.val])

DecodeResponse(o) ==
    ResponseOf(DecodeSeq("request_seq", o), deserialize_response_result(Drop(o, "request_seq")))

EncodeResponse(r) ==
    ("request_seq" :> EncodeU64(r.request_seq)) @@ serialize_response_result(r.result)

(***************************************************************************)
(* The envelope: `seq` plus the content flattened beside it, internally    *)
(* tagged by `type`.                                                       *)
(***************************************************************************)
ProtocolMessageContent ==
    << Var("Request", "request", "Request"),
       Var("Response", "response", "Response"),
       Var("Event", "event", "Event") >>

Dispatch(kind, rest) ==
    CASE kind = "Request" -> DecodeRequest(rest)
      [] kind = "Response" -> DecodeResponse(rest)
      [] kind = "Event" -> DecodeEvent(rest)

ContentOf(r, rest) == IF ~r.ok THEN r ELSE Tagged(r.val.v, Dispatch(r.val.v, rest))

DecodeContent(o) ==
    IF "type" \notin DOMAIN o THEN Err("missing_field", "type")
    ELSE IF o["type"].k # "str" THEN Err("invalid_type", "variant identifier")
    ELSE ContentOf(VariantByWire(ProtocolMessageContent, o["type"].s), Drop(o, "type"))

EncodeContent(c) ==
    ("type" :> JStr(VariantByName(ProtocolMessageContent, VariantOf(c)).w)) @@
        CASE VariantOf(c) = "Request" -> EncodeRequest(c["Request"])
          [] VariantOf(c) = "Response" -> EncodeResponse(c["Response"])
          [] VariantOf(c) = "Event" -> EncodeEvent(c["Event"])

MessageOf(seq, c) ==
    IF ~seq.ok THEN seq
    ELSE IF ~c.ok THEN c
    ELSE Ok([seq |-> seq.val, content |-> c.val])

DecodeMessage(j) ==
    IF j.k # "obj" THEN Err("invalid_type", "ProtocolMessage")
    ELSE MessageOf(DecodeSeq("seq", j.o), DecodeContent(Drop(j.o, "seq")))

EncodeMessage(m) == JObj(("seq" :> EncodeU64(m.seq)) @@ EncodeContent(m.content))


(***************************************************************************)
(* Typed values the sender can construct.  Records are built the way the   *)
(* TypedBuilder of the argument records (and the public fields of the      *)
(* other records) allow: the required fields are given, every other field  *)
(* starts as None or its default, and setters overwrite single fields.     *)
(* The value sets are finite samples of each type; MaxDepth bounds the     *)
(* nesting of records inside the values a setter is given.                 *)
(***************************************************************************)
MaxDepth == 1

MaxSet == 2

BoolSamples == {FALSE, TRUE}

I32Samples == {0, 7, 0 - 3, MaxI32}

StringSamples == {"", "a"}

ValueSamples == {JNull, JStr("v"), JObj("k" :> JNum(PosInt(Limbs(1))))}

SeqSamples == {Limbs(0), Limbs(1), <<0, 1, 0, 0>>, U64Max}

AttributeSamples == {<<>>, "program" :> JStr("a"), ("program" :> JStr("a")) @@ ("restart" :> JNull)}

RECURSIVE Minimal(_)

Canon(ty) ==
    CASE ty = "bool" -> FALSE
      [] ty = "i32" -> 7
      [] ty = "String" -> "a"
      [] ty = "ModuleId" -> "Integer" :> 7
      [] ty \in EnumNames -> EnumDef(ty)[1].v
      [] ty \in StructNames -> Minimal(ty)
      [] OTHER -> <<>>

Initial(fd) ==
    CASE fd.mode = "option" -> None
      [] fd.mode = "default" -> DefaultOf(fd.ty)
      [] fd.mode = "default_true" -> TRUE
      [] fd.mode = "flatten" -> <<>>
      [] OTHER -> Canon(fd.ty)

MinimalOf(fs) ==
    [x \in {fs[i].f : i \in DOMAIN fs} |-> Initial(fs[CHOOSE i \in DOMAIN fs : fs[i].f = x])]

Minimal(ty) == MinimalOf(StructDef(ty))

RECURSIVE Samples(_, _)

FieldSamples(fd, d) ==
    IF fd.mode = "option" THEN {None} \cup {Some(x) : x \in Samples(fd.ty, d)}
    ELSE Samples(fd.ty, d)

Variations(fs, base, d) ==
    {base} \cup
        IF d = 0 THEN {}
        ELSE UNION {{[base EXCEPT ![fs[i].f] = x] : x \in FieldSamples(fs[i], d - 1)} : i \in DOMAIN fs}

StructSamples(ty, d) == Variations(StructDef(ty), Minimal(ty), d)

Samples(ty, d) ==
    CASE ty = "bool" -> BoolSamples
      [] ty = "i32" -> I32Samples
      [] ty = "String" -> StringSamples
      [] ty = "Value" -> ValueSamples
      [] ty = "ModuleId" -> {"Integer" :> 7, "String" :> "m"}
      [] ty = "HashMap<String,String>" -> {<<>>, "k" :> "v"}
      [] ty = "HashMap<String,Option<String>>" -> {<<>>, "k" :> None, "k" :> Some("v")}
      [] ty = "Map<String,Value>" -> AttributeSamples
      [] ty \in EnumNames -> {EnumDef(ty)[i].v : i \in DOMAIN EnumDef(ty)}
      [] ty \in VecTypes -> {<<>>} \cup {<<x>> : x \in Samples(VecElem(ty), d)}
      [] ty \in StructNames -> StructSamples(ty, d)

(***************************************************************************)
(* Messages.  Only the variants whose payload record is transcribed above  *)
(* are constructed.                                                        *)
(***************************************************************************)
Modelled(vs) == {i \in DOMAIN vs : vs[i].payload = "" \/ vs[i].payload \in StructNames}

InitialPayload(var) == IF var.payload = "" THEN Unit ELSE Minimal(var.payload)

Message0(kind, c) == [seq |-> Limbs(1), content |-> kind :> c]

Response0(result) == [request_seq |-> Limbs(1), result |-> result]

InitialMessages ==
    {Message0("Request", Request[i].v :> InitialPayload(Request[i])) : i \in Modelled(Request)}
    \cup {Message0("Event", Event[i].v :> InitialPayload(Event[i])) : i \in Modelled(Event)}
    \cup {Message0("Response", Response0("Ok" :> (SuccessResponse[i].v :> InitialPayload(SuccessResponse[i])))) :
             i \in Modelled(SuccessResponse)}
    \cup {Message0("Response", Response0("Err" :> Minimal("ErrorResponse")))}

Kind(m) == VariantOf(m.content)

IsErr(m) == Kind(m) = "Response" /\ "Err" \in DOMAIN m.content["Response"].result

Union(m) ==
    IF Kind(m) = "Response" THEN m.content["Response"].result["Ok"] ELSE m.content[Kind(m)]

Catalog(m) ==
    CASE Kind(m) = "Request" -> Request
      [] Kind(m) = "Response" -> SuccessResponse
      [] Kind(m) = "Event" -> Event

PayloadType(m) ==
    IF IsErr(m) THEN "ErrorResponse" ELSE VariantByName(Catalog(m), VariantOf(Union(m))).payload

Payload(m) ==
    IF IsErr(m) THEN m.content["Response"].result["Err"] ELSE Union(m)[VariantOf(Union(m))]

WithPayload(m, p) ==
    CASE IsErr(m) -> [m EXCEPT !.content = "Response" :> [m.content["Response"] EXCEPT !.result = "Err" :> p]]
      [] Kind(m) = "Response" /\ ~IsErr(m) ->
            [m EXCEPT !.content = "Response" :>
                [m.content["Response"] EXCEPT !.result = "Ok" :> (VariantOf(Union(m)) :> p)]]
      [] OTHER -> [m EXCEPT !.content = Kind(m) :> (VariantOf(Union(m)) :> p)]


(***************************************************************************)
(* The state: a sender builds a typed message `val` and encodes it; the    *)
(* encoded message `sent` travels as `wire`, where a peer that is not this *)
(* library may have written it differently (`edits` records how); the      *)
(* receiver decodes `wire` into `out`, and may encode the decoded message  *)
(* again (`wire2`) and decode that (`out2`).                               *)
(***************************************************************************)
VARIABLES pc, val, nset, sent, wire, edits, out, wire2, out2

vars == <<pc, val, nset, sent, wire, edits, out, wire2, out2>>

NoWire == [k |-> "none"]

NoOut == [ok |-> FALSE, kind |-> "none", what |-> ""]

MaxEdits == 1

Init ==
    /\ pc = "build"
    /\ val \in InitialMessages
    /\ nset = 0
    /\ sent = NoWire
    /\ wire = NoWire
    /\ edits = <<>>
    /\ out = NoOut
    /\ wire2 = NoWire
    /\ out2 = NoOut

(***************************************************************************)
(* Setters of the builders and public fields.                              *)
(***************************************************************************)
SetField ==
    /\ pc = "build"
    /\ nset < MaxSet
    /\ PayloadType(val) \in StructNames
    /\ \E i \in DOMAIN StructDef(PayloadType(val)) :
         LET fd == StructDef(PayloadType(val))[i]
         IN  \E x \in FieldSamples(fd, MaxDepth) \ {Payload(val)[fd.f]} :
                val' = WithPayload(val, [Payload(val) EXCEPT ![fd.f] = x])
    /\ nset' = nset + 1
    /\ UNCHANGED <<pc, sent, wire, edits, out, wire2, out2>>

SetSeq ==
    /\ pc = "build"
    /\ nset < MaxSet
    /\ \E s \in SeqSamples \ {val.seq} : val' = [val EXCEPT !.seq = s]
    /\ nset' = nset + 1
    /\ UNCHANGED <<pc, sent, wire, edits, out, wire2, out2>>

SetRequestSeq ==
    /\ pc = "build"
    /\ nset < MaxSet
    /\ Kind(val) = "Response"
    /\ \E s \in SeqSamples \ {val.content["Response"].request_seq} :
         val' = [val EXCEPT !.content = "Response" :> [val.content["Response"] EXCEPT !.request_seq = s]]
    /\ nset' = nset + 1
    /\ UNCHANGED <<pc, sent, wire, edits, out, wire2, out2>>

Encode ==
    /\ pc = "build"
    /\ sent' = EncodeMessage(val)
    /\ wire' = EncodeMessage(val)
    /\ pc' = "wire"
    /\ UNCHANGED <<val, nset, edits, out, wire2, out2>>

Decode ==
    /\ pc = "wire"
    /\ out' = DecodeMessage(wire)
    /\ pc' = "done"
    /\ UNCHANGED <<val, nset, sent, wire, edits, wire2, out2>>

Next == SetField \/ SetSeq \/ SetRequestSeq \/ Encode \/ Decode

Spec == Init /\ [][Next]_vars


(***************************************************************************)
(* Messages written by a peer: the encoded message with members put or     *)
(* dropped, at the top level or inside the payload object.  The candidate  *)
(* members are finite samples: for a declared field the wire forms of its  *)
(* typed samples and values of other kinds, and names no record declares.  *)
(***************************************************************************)
Two31 == <<0, 0, 32768, 0>>

OtherSamples ==
    {JNull, JBool(TRUE), JStr("x"), JNum(PosInt(Two31)), JNum(Float(Limbs(1))), JObj(<<>>)}

NumberSamples ==
    {JNum(PosInt(Limbs(0))), JNum(PosInt(U64Max)), JNum(NegInt(Limbs(1))), JNum(Float(Limbs(1))), JStr("1")}

TopEdits ==
    ({"seq", "request_seq"} \X NumberSamples)
    \cup ({"type"} \X {JStr("x"), JStr("Request"), JStr("event"), JNull})
    \cup ({"command"} \X {JStr("not-a-real-command"), JStr("Launch"), JStr("launch"), JStr("continue"), JNull})
    \cup ({"event"} \X {JStr("not-a-real-event"), JStr("Stopped"), JStr("initialized"), JStr("exited")})
    \cup ({"arguments", "body"} \X {JObj(<<>>), JNull, JStr("x")})
    \cup ({"success"} \X {JBool(TRUE), JBool(FALSE), JStr("true"), JNull, JNum(PosInt(Limbs(1)))})
    \cup ({"message"} \X {JStr("m"), JNull, JBool(TRUE)})
    \cup ({"zz"} \X {JNull, JStr("x"), JObj(<<>>)})

UnknownNames == {"zz", "restart"}

ContentKey(m) == IF Kind(m) = "Request" THEN "arguments" ELSE "body"

WireBodyType(m) == IF IsErr(m) THEN "ErrorResponseBody" ELSE PayloadType(m)

FieldEdits(fs) ==
    UNION {{<<fs[i].w, EncodeField(fs[i], x)>> : x \in FieldSamples(fs[i], 0)} :
              i \in {n \in DOMAIN fs : fs[n].mode # "flatten"}}
    \cup ((Declared(fs) \cup UnknownNames) \X OtherSamples)

InnerEdits(ty) == FieldEdits(StructDef(ty))

HasInner(m, w) ==
    /\ WireBodyType(m) \in StructNames
    /\ ContentKey(m) \in DOMAIN w.o
    /\ w.o[ContentKey(m)].k = "obj"

Changes(o, key, value) == IF key \in DOMAIN o THEN o[key] # value ELSE TRUE

PutTop ==
    /\ pc = "wire"
    /\ Len(edits) < MaxEdits
    /\ \E e \in TopEdits :
         /\ Changes(wire.o, e[1], e[2])
         /\ wire' = JObj(Put(wire.o, e[1], e[2]))
         /\ edits' = Append(edits, [op |-> "PutTop", key |-> e[1], value |-> e[2]])
    /\ UNCHANGED <<pc, val, nset, sent, out, wire2, out2>>

DropTop ==
    /\ pc = "wire"
    /\ Len(edits) < MaxEdits
    /\ \E key \in DOMAIN wire.o :
         /\ wire' = JObj(Drop(wire.o, key))
         /\ edits' = Append(edits, [op |-> "DropTop", key |-> key])
    /\ UNCHANGED <<pc, val, nset, sent, out, wire2, out2>>

PutIn ==
    /\ pc = "wire"
    /\ Len(edits) < MaxEdits
    /\ HasInner(val, wire)
    /\ LET c == ContentKey(val)
       IN  \E e \in InnerEdits(WireBodyType(val)) :
             /\ Changes(wire.o[c].o, e[1], e[2])
             /\ wire' = JObj(Put(wire.o, c, JObj(Put(wire.o[c].o, e[1], e[2]))))
             /\ edits' = Append(edits, [op |-> "PutIn", key |-> e[1], value |-> e[2]])
    /\ UNCHANGED <<pc, val, nset, sent, out, wire2, out2>>

DropIn ==
    /\ pc = "wire"
    /\ Len(edits) < MaxEdits
    /\ HasInner(val, wire)
    /\ LET c == ContentKey(val)
       IN  \E key \in DOMAIN wire.o[c].o :
             /\ wire' = JObj(Put(wire.o, c, JObj(Drop(wire.o[c].o, key))))
             /\ edits' = Append(edits, [op |-> "DropIn", key |-> key])
    /\ UNCHANGED <<pc, val, nset, sent, out, wire2, out2>>

NestedFields(ty, o) ==
    {i \in DOMAIN StructDef(ty) :
        LET fd == StructDef(ty)[i]
        IN  fd.ty \in StructNames /\ (IF fd.w \in DOMAIN o THEN o[fd.w].k = "obj" ELSE FALSE)}

PutDeep ==
    /\ pc = "wire"
    /\ Len(edits) < MaxEdits
    /\ HasInner(val, wire)
    /\ LET c == ContentKey(val)
           inner == wire.o[c].o
       IN  \E i \in NestedFields(WireBodyType(val), inner) :
             LET fd == StructDef(WireBodyType(val))[i]
             IN  \E e \in InnerEdits(fd.ty) :
                   /\ Changes(inner[fd.w].o, e[1], e[2])
                   /\ wire' = JObj(Put(wire.o, c, JObj(Put(inner, fd.w, JObj(Put(inner[fd.w].o, e[1], e[2]))))))
                   /\ edits' = Append(edits, [op |-> "PutDeep", at |-> fd.w, key |-> e[1], value |-> e[2]])
    /\ UNCHANGED <<pc, val, nset, sent, out, wire2, out2>>

Reencode ==
    /\ pc = "done"
    /\ out.ok
    /\ wire2' = EncodeMessage(out.val)
    /\ pc' = "again"
    /\ UNCHANGED <<val, nset, sent, wire, edits, out, out2>>

Redecode ==
    /\ pc = "again"
    /\ out2' = DecodeMessage(wire2)
    /\ pc' = "end"
    /\ UNCHANGED <<val, nset, sent, wire, edits, out, wire2>>

NextWire == Encode \/ PutTop \/ DropTop \/ PutIn \/ DropIn \/ PutDeep \/ Decode \/ Reencode \/ Redecode

SpecWire == Init /\ [][NextWire]_vars


(***************************************************************************)
(* Properties.                                                             *)
(***************************************************************************)
Untouched == edits = <<>>

(* C1: round-trip law -- for every constructible message, decoding its     *)
(* encoding yields a value equal to it.                                    *)
C1_RoundTrip == (pc = "done" /\ Untouched) => out = Ok(val)

(* C2: for every Response, in either arm, and every request_seq in the u64 *)
(* range, decoding the encoding succeeds and returns the same request_seq, *)
(* whatever the other fields of the message are.                           *)
C2_RequestSeqRoundTrip ==
    (pc = "done" /\ Untouched /\ Kind(val) = "Response") =>
        /\ out.ok
        /\ "Response" \in DOMAIN out.val.content
        /\ out.val.content["Response"].request_seq = val.content["Response"].request_seq

C2_Witness ==
    /\ pc = "done"
    /\ IsErr(val)
    /\ val.content["Response"].request_seq = U64Max
    /\ Payload(val).message = ""
    /\ out.ok
    /\ out.val.content["Response"].request_seq = U64Max


Decoded == pc \in {"done", "again", "end"}

TopIs(w, key, j) == IF key \in DOMAIN w.o THEN w.o[key] = j ELSE FALSE

TopStr(w, key) == IF key \in DOMAIN w.o THEN w.o[key].k = "str" ELSE FALSE

Tags(vs) == {vs[i].w : i \in DOMAIN vs}

ResponseWire ==
    /\ Decoded
    /\ TopIs(wire, "type", JStr("response"))
    /\ DecodeSeq("seq", wire.o).ok
    /\ DecodeSeq("request_seq", wire.o).ok

Arm(r) == VariantOf(r.val.content["Response"].result)

SelectedBy(w, u) ==
    LET var == VariantByName(SuccessResponse, VariantOf(u))
    IN  /\ w.o["command"] = JStr(var.w)
        /\ IF var.payload = "" THEN u[var.v] = Unit
           ELSE Ok(u[var.v]) = DecodeType(var.payload, w.o["body"])

(* C3: decoding a Response branches on `success` only -- absent: a         *)
(* missing-field error for `success`; present but not a boolean: an        *)
(* invalid-type error; true: only ever the success arm, selected by        *)
(* `command` with its payload taken from `body`, and `message` is not read *)
(* (the result is the one obtained without it); false: only ever the error *)
(* arm.                                                                    *)
C3_SuccessBranch ==
    ResponseWire =>
        /\ ("success" \notin DOMAIN wire.o) => (out = Err("missing_field", "success"))
        /\ ("success" \in DOMAIN wire.o /\ wire.o["success"].k # "bool") =>
               (~out.ok /\ out.kind = "invalid_type")
        /\ TopIs(wire, "success", JBool(TRUE)) =>
               /\ out.ok => (Arm(out) = "Ok" /\ SelectedBy(wire, out.val.content["Response"].result["Ok"]))
               /\ out = DecodeMessage(JObj(Drop(wire.o, "message")))
        /\ TopIs(wire, "success", JBool(FALSE)) => (out.ok => Arm(out) = "Err")

C3_Witness ==
    /\ pc = "done"
    /\ ResponseWire
    /\ TopIs(wire, "success", JBool(TRUE))
    /\ TopIs(wire, "message", JNull)
    /\ TopIs(wire, "command", JStr("continue"))
    /\ out.ok
    /\ Arm(out) = "Ok"

(* C4: a Request whose `command`, an Event whose `event`, or a successful  *)
(* Response whose `command` is a string that is not exactly one of the     *)
(* catalog's tags does not decode: the result is an error, never a value.  *)
C4_UnknownTagFails ==
    Decoded =>
        /\ (TopIs(wire, "type", JStr("request")) /\ TopStr(wire, "command")
               /\ wire.o["command"].s \notin Tags(Request)) => ~out.ok
        /\ (TopIs(wire, "type", JStr("event")) /\ TopStr(wire, "event")
               /\ wire.o["event"].s \notin Tags(Event)) => ~out.ok
        /\ (TopIs(wire, "type", JStr("response")) /\ TopIs(wire, "success", JBool(TRUE))
               /\ TopStr(wire, "command") /\ wire.o["command"].s \notin Tags(SuccessResponse)) => ~out.ok

C4_Witness ==
    /\ pc = "done"
    /\ TopIs(wire, "type", JStr("request"))
    /\ TopIs(wire, "command", JStr("Launch"))
    /\ TopIs(sent, "command", JStr("launch"))
    /\ out = Err("unknown_variant", "Launch")

OnlyInnerEdits == \A i \in DOMAIN edits : edits[i].op \in {"PutIn", "DropIn", "PutDeep"}

InnerObj(w) == w.o[ContentKey(val)].o

WithInner(w, o) == JObj(Put(w.o, ContentKey(val), JObj(o)))

Undeclared(ty, o) == DOMAIN o \ Declared(StructDef(ty))

(* C5: unknown-field tolerance -- for a payload record other than          *)
(* LaunchRequestArguments (and for a record nested in it), a wire object   *)
(* with a member the record does not declare decodes to the same result as *)
(* the object without that member, whenever the latter decodes.            *)
C5_UnknownFieldIgnored ==
    (pc = "done" /\ OnlyInnerEdits /\ HasInner(val, wire)
        /\ WireBodyType(val) # "LaunchRequestArguments") =>
        /\ \A key \in Undeclared(WireBodyType(val), InnerObj(wire)) :
              LET x == WithInner(wire, Drop(InnerObj(wire), key))
              IN  DecodeMessage(x).ok => out = DecodeMessage(x)
        /\ \A i \in NestedFields(WireBodyType(val), InnerObj(wire)) :
              LET fd == StructDef(WireBodyType(val))[i]
                  n == InnerObj(wire)[fd.w].o
              IN  \A key \in Undeclared(fd.ty, n) :
                     LET x == WithInner(wire, Put(InnerObj(wire), fd.w, JObj(Drop(n, key))))
                     IN  DecodeMessage(x).ok => out = DecodeMessage(x)

C5_Witness ==
    /\ pc = "done"
    /\ edits = <<[op |-> "PutIn", key |-> "zz", value |-> JStr("x")]>>
    /\ TopIs(wire, "command", JStr("attach"))
    /\ "zz" \in DOMAIN InnerObj(wire)
    /\ out.ok
    /\ out = DecodeMessage(sent)

LaunchWire == TopIs(wire, "type", JStr("request")) /\ TopIs(wire, "command", JStr("launch"))

LaunchArgs(r) == r.val.content["Request"]["Launch"]

(* C6: decoding launch arguments stores every wire member other than       *)
(* `noDebug` and `__restart` in additional_attributes with its value       *)
(* unchanged and never those two; encoding writes every entry as a member  *)
(* of `arguments` itself; so the entries are the same after decode, encode *)
(* and decode again.                                                       *)
C6_LaunchAttributes ==
    /\ (Decoded /\ LaunchWire /\ out.ok) =>
          LaunchArgs(out).additional_attributes = Drop(Drop(wire.o["arguments"].o, "noDebug"), "__restart")
    /\ (pc \in {"again", "end"} /\ LaunchWire) =>
          \A x \in DOMAIN LaunchArgs(out).additional_attributes :
             TopIs(wire2.o["arguments"], x, LaunchArgs(out).additional_attributes[x])
    /\ (pc = "end" /\ LaunchWire) =>
          /\ out2.ok
          /\ LaunchArgs(out2).additional_attributes = LaunchArgs(out).additional_attributes

C6_Witness ==
    /\ pc = "end"
    /\ LaunchWire
    /\ edits = <<[op |-> "PutIn", key |-> "zz", value |-> JObj(<<>>)]>>
    /\ out2.ok
    /\ LaunchArgs(out2).additional_attributes = "zz" :> JObj(<<>>)


Body(m) == IF IsErr(m) THEN Payload(m).body ELSE Payload(m)

Defaultable(ty) == {i \in DOMAIN StructDef(ty) : StructDef(ty)[i].mode \in {"option", "default", "default_true"}}

AllDefault(ty, v) == \A i \in Defaultable(ty) : v[StructDef(ty)[i].f] = Initial(StructDef(ty)[i])

Elided(ty) == {StructDef(ty)[i].w : i \in {n \in Defaultable(ty) : StructDef(ty)[n].skip # "never"}}

Written(ty) == {i \in Defaultable(ty) : StructDef(ty)[i].skip = "never"}

RECURSIVE HoldsNull(_, _)

HoldsNullIn(fd, x) ==
    IF fd.mode # "option" THEN HoldsNull(fd.ty, x)
    ELSE IF x = None THEN FALSE
    ELSE IF fd.ty = "Value" THEN Unwrap(x) = JNull
    ELSE HoldsNull(fd.ty, Unwrap(x))

HoldsNull(ty, v) ==
    CASE ty \in StructNames -> \E i \in DOMAIN StructDef(ty) : HoldsNullIn(StructDef(ty)[i], v[StructDef(ty)[i].f])
      [] ty \in VecTypes -> \E i \in DOMAIN v : HoldsNull(VecElem(ty), v[i])
      [] OTHER -> FALSE

AtDefaults ==
    /\ pc = "done"
    /\ Untouched
    /\ WireBodyType(val) \in StructNames
    /\ AllDefault(WireBodyType(val), Body(val))

InitializeWire(w) == TopIs(w, "type", JStr("request")) /\ TopIs(w, "command", JStr("initialize"))

InitializeArgs(r) == r.val.content["Request"]["Initialize"]

ErrorWire ==
    /\ Decoded
    /\ TopIs(wire, "type", JStr("response"))
    /\ TopIs(wire, "success", JBool(FALSE))
    /\ DecodeSeq("seq", wire.o).ok
    /\ DecodeSeq("request_seq", wire.o).ok

ErrorOf(r) == r.val.content["Response"].result["Err"]

WireError(w) ==
    IF "body" \notin DOMAIN w.o THEN JNull
    ELSE IF w.o["body"].k # "obj" THEN JNull
    ELSE IF "error" \in DOMAIN w.o["body"].o THEN w.o["body"].o["error"] ELSE JNull

OnlyIdFormat(e) ==
    /\ e.k = "obj"
    /\ DOMAIN e.o = {"id", "format"}
    /\ e.o["id"].k = "num"
    /\ e.o["id"].n.c = "PosInt"
    /\ FitsI32(e.o["id"].n.m)
    /\ e.o["format"].k = "str"

(* C9: a Response with `success` false decodes only ever to the error arm, *)
(* which carries `command` as written (any string), `message`, and the     *)
(* error decoded from `body.error`; an error that gives only `id` and      *)
(* `format` decodes, with variables empty, send_telemetry and show_user    *)
(* false and no url.                                                       *)
C9_ErrorArm ==
    ErrorWire =>
        /\ out.ok =>
              /\ Arm(out) = "Err"
              /\ JStr(ErrorOf(out).command) = wire.o["command"]
              /\ JStr(ErrorOf(out).message) = wire.o["message"]
              /\ ErrorOf(out).body.error =
                    IF WireError(wire) = JNull THEN None
                    ELSE Some(DecodeType("Message", WireError(wire)).val)
        /\ (TopStr(wire, "command") /\ TopStr(wire, "message") /\ HasInner(val, wire)
               /\ OnlyIdFormat(WireError(wire))) =>
              /\ out.ok
              /\ Unwrap(ErrorOf(out).body.error).variables = <<>>
              /\ Unwrap(ErrorOf(out).body.error).send_telemetry = FALSE
              /\ Unwrap(ErrorOf(out).body.error).show_user = FALSE
              /\ Unwrap(ErrorOf(out).body.error).url = None

C9_Witness ==
    /\ pc = "done"
    /\ ErrorWire
    /\ OnlyIdFormat(WireError(wire))
    /\ wire.o["command"].s \notin Tags(SuccessResponse)
    /\ out.ok
    /\ Unwrap(ErrorOf(out).body.error).variables = <<>>

C10_Commands == {"attach", "cancel", "disconnect", "launch", "modules", "terminate", "terminateThreads"}

(* C10: a Request whose command is one of attach, cancel, disconnect,      *)
(* launch, modules, terminate, terminateThreads and that has no            *)
(* `arguments` member decodes, to the value the same object decodes to     *)
(* with `arguments` set to the empty object.                               *)
C10_AbsentArguments ==
    (pc = "done" /\ TopIs(wire, "type", JStr("request")) /\ TopStr(wire, "command")
        /\ DecodeSeq("seq", wire.o).ok /\ "arguments" \notin DOMAIN wire.o) =>
        (wire.o["command"].s \in C10_Commands =>
            /\ out.ok
            /\ out = DecodeMessage(JObj(Put(wire.o, "arguments", JObj(<<>>)))))


UnitTags(vs) == {vs[i].w : i \in {n \in DOMAIN vs : vs[n].payload = ""}}

TagKey(kind) == IF kind = "Event" THEN "event" ELSE "command"

WireKind(w) ==
    IF TopIs(w, "type", JStr("request")) THEN "Request"
    ELSE IF TopIs(w, "type", JStr("response")) THEN "Response"
    ELSE IF TopIs(w, "type", JStr("event")) THEN "Event"
    ELSE "none"

WireCatalog(w) ==
    CASE WireKind(w) = "Request" -> Request
      [] WireKind(w) = "Response" -> SuccessResponse
      [] WireKind(w) = "Event" -> Event
      [] OTHER -> <<>>

SeqsValid(w) ==
    /\ DecodeSeq("seq", w.o).ok
    /\ WireKind(w) = "Response" => (DecodeSeq("request_seq", w.o).ok /\ TopIs(w, "success", JBool(TRUE)))

BareUnitWire(w) ==
    /\ WireKind(w) # "none"
    /\ SeqsValid(w)
    /\ TopStr(w, TagKey(WireKind(w)))
    /\ w.o[TagKey(WireKind(w))].s \in UnitTags(WireCatalog(w))
    /\ (IF WireKind(w) = "Request" THEN "arguments" ELSE "body") \notin DOMAIN w.o

UnionOf(r) ==
    IF VariantOf(r.val.content) = "Response" THEN r.val.content["Response"].result["Ok"]
    ELSE r.val.content[VariantOf(r.val.content)]

(* C11: a variant without payload decodes from an object that has its tag  *)
(* and no `arguments` / `body` member, to that variant; and the encoding   *)
(* of such a variant has the tag and neither an `arguments` nor a `body`   *)
(* member.                                                                 *)
C11_PayloadLess ==
    /\ (Decoded /\ BareUnitWire(wire)) =>
          /\ out.ok
          /\ VariantOf(out.val.content) = WireKind(wire)
          /\ UnionOf(out) = (VariantByWire(WireCatalog(wire), wire.o[TagKey(WireKind(wire))].s).val.v :> Unit)
    /\ (pc # "build" /\ ~IsErr(val) /\ PayloadType(val) = "") =>
          /\ sent.o[TagKey(Kind(val))] = JStr(VariantByName(Catalog(val), VariantOf(Union(val))).w)
          /\ {"arguments", "body"} \cap DOMAIN sent.o = {}
    /\ (pc \in {"again", "end"} /\ BareUnitWire(wire)) =>
          {"arguments", "body"} \cap DOMAIN wire2.o = {}

C11_Witness ==
    /\ pc = "again"
    /\ edits = <<[op |-> "PutTop", key |-> "command", value |-> JStr("launch")]>>
    /\ WireKind(wire) = "Response"
    /\ BareUnitWire(wire)
    /\ out.ok
    /\ UnionOf(out) = ("Launch" :> Unit)
    /\ "body" \notin DOMAIN wire2.o


(***************************************************************************)
(* Field order.  A wire object is a list of members; derived decoders      *)
(* visit the members in that order.  `WireOrder` is the order the encoders *)
(* write them in, and a peer may write them in another order (`Swap`).     *)
(* A struct with a flattened field decodes its own fields as they come and *)
(* buffers the others; an adjacently tagged enum that meets its content    *)
(* before its tag buffers the content.                                     *)
(***************************************************************************)
WireOrder ==
    <<"seq", "type", "request_seq", "success", "command", "event", "message", "arguments", "body", "zz">>

InWireOrder(S) == SelectSeq(WireOrder, LAMBDA k : k \in S)

Swapped(ks, i) == [n \in DOMAIN ks |-> IF n = i THEN ks[i + 1] ELSE IF n = i + 1 THEN ks[i] ELSE ks[n]]

RECURSIVE Reordered(_, _)

Reordered(ks, es) ==
    IF es = <<>> THEN ks
    ELSE IF es[1].op = "Swap" /\ es[1].at < Len(ks) THEN Reordered(Swapped(ks, es[1].at), Tail(es))
    ELSE Reordered(ks, Tail(es))

Order == Reordered(InWireOrder(DOMAIN wire.o), edits)

Precedes(ks, a, b) ==
    \E i, n \in DOMAIN ks : i < n /\ ks[i] = a /\ ks[n] = b

DecodeTagFirst(vs, tag, content, o) ==
    IF o[tag].k # "str" THEN Err("invalid_type", "variant identifier")
    ELSE DecodeVariant(VariantByWire(vs, o[tag].s), content, o)

DecodeContentFirstUnbuffered(vs, tag, content, o) == Err("missing_field", tag)

DecodeContentFirst(vs, tag, content, o) ==
    IF tag \notin DOMAIN o THEN Err("missing_field", tag)
    ELSE IF o[tag].k # "str" THEN Err("invalid_type", "variant identifier")
    ELSE DecodeVariant(VariantByWire(vs, o[tag].s), content, o)

DecodeAdjacentOrdered(vs, tag, content, ks, o) ==
    IF Precedes(ks, content, tag) THEN DecodeContentFirst(vs, tag, content, o)
    ELSE IF tag \in DOMAIN o THEN DecodeTagFirst(vs, tag, content, o)
    ELSE DecodeContentFirst(vs, tag, content, o)

DispatchOrdered(kind, ks, rest) ==
    CASE kind = "Request" -> DecodeAdjacentOrdered(Request, "command", "arguments", ks, rest)
      [] kind = "Response" -> DecodeResponse(rest)
      [] kind = "Event" -> DecodeAdjacentOrdered(Event, "event", "body", ks, rest)

ContentOfOrdered(r, ks, rest) ==
    IF ~r.ok THEN r ELSE Tagged(r.val.v, DispatchOrdered(r.val.v, ks, rest))

DecodeContentOrdered(ks, o) ==
    IF "type" \notin DOMAIN o THEN Err("missing_field", "type")
    ELSE IF o["type"].k # "str" THEN Err("invalid_type", "variant identifier")
    ELSE ContentOfOrdered(VariantByWire(ProtocolMessageContent, o["type"].s), ks, Drop(o, "type"))

DecodeMessageOrdered(ks, j) ==
    IF j.k # "obj" THEN Err("invalid_type", "ProtocolMessage")
    ELSE MessageOf(DecodeSeq("seq", j.o), DecodeContentOrdered(ks, Drop(j.o, "seq")))

MaxSwaps == 3

Swap ==
    /\ pc = "wire"
    /\ Len(edits) < MaxSwaps
    /\ \E i \in 1 .. (Len(Order) - 1) : edits' = Append(edits, [op |-> "Swap", at |-> i])
    /\ UNCHANGED <<pc, val, nset, sent, wire, out, wire2, out2>>

DecodeOrdered ==
    /\ pc = "wire"
    /\ out' = DecodeMessageOrdered(Order, wire)
    /\ pc' = "done"
    /\ UNCHANGED <<val, nset, sent, wire, edits, wire2, out2>>

NextOrder == Encode \/ PutTop \/ DropTop \/ Swap \/ DecodeOrdered

SpecOrder == Init /\ [][NextOrder]_vars

InitializeResponseWire ==
    /\ ResponseWire
    /\ TopIs(wire, "success", JBool(TRUE))
    /\ TopIs(wire, "command", JStr("initialize"))
    /\ "body" \in DOMAIN wire.o
    /\ wire.o["body"].k = "obj"

Flags(ty) == {i \in DOMAIN StructDef(ty) : StructDef(ty)[i].ty = "bool"}

OnlyFlags(o) ==
    \A x \in DOMAIN o :
        /\ x \in {Capabilities[i].w : i \in Flags("Capabilities")}
        /\ o[x].k = "bool"

CapabilitiesOf(r) == r.val.content["Response"].result["Ok"]["Initialize"]

(* C13, for the Capabilities record of types.rs:                           *)
(* a successful initialize Response decodes `body` onto Capabilities       *)
(* and reads request_seq: every capability flag is true exactly when its   *)
(* camelCase wire member is present in `body` with value true, so a flag   *)
(* that is absent is false; a body that holds only boolean flags decodes.  *)
C13_InitializeCapabilities ==
    InitializeResponseWire =>
        /\ OnlyFlags(wire.o["body"].o) => out.ok
        /\ out.ok =>
              /\ Arm(out) = "Ok"
              /\ VariantOf(out.val.content["Response"].result["Ok"]) = "Initialize"
              /\ Ok(out.val.content["Response"].request_seq) = DecodeSeq("request_seq", wire.o)
              /\ \A i \in Flags("Capabilities") :
                    CapabilitiesOf(out)[Capabilities[i].f] = TopIs(wire.o["body"], Capabilities[i].w, JBool(TRUE))

C13_Witness ==
    /\ pc = "done"
    /\ InitializeResponseWire
    /\ TopIs(wire.o["body"], "supportsModulesRequest", JBool(TRUE))
    /\ "supportsDataBreakpoints" \notin DOMAIN wire.o["body"].o
    /\ out.ok
    /\ CapabilitiesOf(out).supports_modules_request = TRUE
    /\ CapabilitiesOf(out).supports_data_breakpoints = FALSE


(***************************************************************************)
(* The decoder of lib.rs: ProtocolMessage with its own Request, Response,  *)
(* Capabilities and (empty) Event.                                         *)
(***************************************************************************)
LibAttach ==
    << Fld("__restart", "__restart", "String", "option", "is_none") >>

LibInitialize ==
    << Fld("client_id", "clientID", "String", "option", "is_none"),
       Fld("client_name", "clientName", "String", "option", "is_none"),
       Fld("adapter_id", "adapterID", "String", "required", "never"),
       Fld("locale", "locale", "String", "option", "is_none"),
       Fld("lines_start_at1", "linesStartAt1", "bool", "default_true", "never"),
       Fld("columns_start_at1", "columnsStartAt1", "bool", "default_true", "never"),
       Fld("path_format", "pathFormat", "PathFormat", "default", "never"),
       Fld("supports_variable_type", "supportsVariableType", "bool", "default", "eq_default"),
       Fld("supports_variable_paging", "supportsVariablePaging", "bool", "default", "eq_default"),
       Fld("supports_run_in_terminal_request", "supportsRunInTerminalRequest", "bool", "default", "eq_default"),
       Fld("supports_memory_references", "supportsMemoryReferences", "bool", "default", "eq_default"),
       Fld("supports_progress_reporting", "supportsProgressReporting", "bool", "default", "eq_default"),
       Fld("supports_invalidated_event", "supportsInvalidatedEvent", "bool", "default", "eq_default") >>

LibCapabilities ==
    << Fld("supports_configuration_done_request", "supportsConfigurationDoneRequest", "bool", "default", "eq_default"),
       Fld("supports_function_breakpoints", "supportsFunctionBreakpoints", "bool", "default", "eq_default"),
       Fld("supports_conditional_breakpoints", "supportsConditionalBreakpoints", "bool", "default", "eq_default"),
       Fld("supports_hit_conditional_breakpoints", "supportsHitConditionalBreakpoints", "bool", "default", "eq_default"),
       Fld("supports_evaluate_for_hovers", "supportsEvaluateForHovers", "bool", "default", "eq_default"),
       Fld("supports_step_back", "supportsStepBack", "bool", "default", "eq_default"),
       Fld("supports_set_variable", "supportsSetVariable", "bool", "default", "eq_default"),
       Fld("supports_restart_frame", "supportsRestartFrame", "bool", "default", "eq_default"),
       Fld("supports_goto_targets_request", "supportsGotoTargetsRequest", "bool", "default", "eq_default"),
       Fld("supports_step_in_targets_request", "supportsStepInTargetsRequest", "bool", "default", "eq_default"),
       Fld("supports_completions_request", "supportsCompletionsRequest", "bool", "default", "eq_default"),
       Fld("supports_modules_requeststst", "supportsModulesRequeststst", "bool", "default", "eq_default"),
       Fld("supports_restart_request", "supportsRestartRequest", "bool", "default", "eq_default"),
       Fld("supports_exception_options", "supportsExceptionOptions", "bool", "default", "eq_default"),
       Fld("supports_value_formatting_options", "supportsValueFormattingOptions", "bool", "default", "eq_default"),
       Fld("supports_exception_info_request", "supportsExceptionInfoRequest", "bool", "default", "eq_default"),
       Fld("support_terminate_debuggee", "supportTerminateDebuggee", "bool", "default", "eq_default"),
       Fld("support_suspend_debuggee", "supportSuspendDebuggee", "bool", "default", "eq_default"),
       Fld("supports_delayed_stack_trace_loading", "supportsDelayedStackTraceLoading", "bool", "default", "eq_default"),
       Fld("supports_loaded_sources_request", "supportsLoadedSourcesRequest", "bool", "default", "eq_default"),
       Fld("supports_log_points", "supportsLogPoints", "bool", "default", "eq_default"),
       Fld("supports_terminate_threads_request", "supportsTerminateThreadsRequest", "bool", "default", "eq_default"),
       Fld("supports_set_expression", "supportsSetExpression", "bool", "default", "eq_default"),
       Fld("supports_terminate_request", "supportsTerminateRequest", "bool", "default", "eq_default"),
       Fld("supports_data_breakpoints", "supportsDataBreakpoints", "bool", "default", "eq_default"),
       Fld("supports_read_memory_request", "supportsReadMemoryRequest", "bool", "default", "eq_default"),
       Fld("supports_disassemble_request", "supportsDisassembleRequest", "bool", "default", "eq_default"),
       Fld("supports_cancel_request", "supportsCancelRequest", "bool", "default", "eq_default"),
       Fld("supports_breakpoint_locations_request", "supportsBreakpointLocationsRequest", "bool", "default", "eq_default"),
       Fld("supports_clipboard_context", "supportsClipboardContext", "bool", "default", "eq_default"),
       Fld("supports_stepping_granularity", "supportsSteppingGranularity", "bool", "default", "eq_default"),
       Fld("supports_instruction_breakpoints", "supportsInstructionBreakpoints", "bool", "default", "eq_default"),
       Fld("supports_exception_filter_options", "supportsExceptionFilterOptions", "bool", "default", "eq_default") >>

LibErrorResponse ==
    << Fld("command", "command", "String", "required", "never"),
       Fld("message", "message", "String", "required", "never") >>

LibRequest ==
    << Var("Attach", "attach", "LibAttach"),
       Var("Initialize", "initialize", "LibInitialize") >>

LibResponse ==
    << Var("Initialize", "initialize", "LibCapabilities") >>

LibEvent == << >>

LibSchema(name) ==
    CASE name = "LibAttach" -> LibAttach
      [] name = "LibInitialize" -> LibInitialize
      [] name = "LibCapabilities" -> LibCapabilities

LibDecodePayload(var, j) ==
    IF var.payload = "LibCapabilities" /\ j.k # "obj" THEN Err("invalid_type", "map")
    ELSE Tagged(var.v, DecodeFields(LibSchema(var.payload), var.v, j))

LibDecodeVariant(r, content, o) ==
    IF ~r.ok THEN r
    ELSE IF content \notin DOMAIN o THEN Err("missing_field", content)
    ELSE LibDecodePayload(r.val, o[content])

LibDecodeAdjacent(vs, tag, content, o) ==
    IF tag \notin DOMAIN o THEN Err("missing_field", tag)
    ELSE IF o[tag].k # "str" THEN Err("invalid_type", "variant identifier")
    ELSE LibDecodeVariant(VariantByWire(vs, o[tag].s), content, o)

ResponseType_deserialize(o) ==
    IF "success" \notin DOMAIN o THEN Err("missing_field", "success")
    ELSE IF o["success"].k # "bool" THEN Err("invalid_type", "success bool")
    ELSE IF o["success"].b
    THEN Custom(Tagged("Success", LibDecodeAdjacent(LibResponse, "command", "body", o)))
    ELSE Custom(Tagged("Error", DecodeFields(LibErrorResponse, "ErrorResponse", JObj(o))))

LibResponseOf(seq, res) ==
    IF ~seq.ok THEN seq
    ELSE IF ~res.ok THEN res
    ELSE Ok([request_seq |-> seq.val, response_type |-> res.val])

LibDecodeEventField(o) ==
    IF "event" \notin DOMAIN o THEN Err("missing_field", "event")
    ELSE IF o["event"].k = "obj" THEN LibDecodeAdjacent(LibEvent, "event", "body", o["event"].o)
    ELSE IF o["event"].k # "arr" THEN Err("invalid_type", "adjacently tagged enum Event")
    ELSE IF o["event"].a = <<>> THEN Err("invalid_length", "0")
    ELSE IF o["event"].a[1].k # "str" THEN Err("invalid_type", "variant identifier")
    ELSE Err("unknown_variant", o["event"].a[1].s)

ProtocolMessageTypeAnyCase(kind, rest) ==
    CASE kind \in {"request", "Request"} ->
            Tagged("Request", LibDecodeAdjacent(LibRequest, "command", "arguments", rest))
      [] kind = "response" ->
            Tagged("Response",
                   LibResponseOf(DecodeSeq("request_seq", rest),
                                 ResponseType_deserialize(Drop(rest, "request_seq"))))
      [] kind = "event" -> Tagged("Event", LibDecodeEventField(rest))
      [] OTHER -> Err("unknown_variant", kind)

ProtocolMessageType(kind, rest) ==
    CASE kind = "request" -> Tagged("Request", LibDecodeAdjacent(LibRequest, "command", "arguments", rest))
      [] kind = "response" ->
            Tagged("Response",
                   LibResponseOf(DecodeSeq("request_seq", rest),
                                 ResponseType_deserialize(Drop(rest, "request_seq"))))
      [] kind = "event" -> Tagged("Event", LibDecodeEventField(rest))
      [] OTHER -> Err("unknown_variant", kind)

DecodeProtocolMessageType(o) ==
    IF "type" \notin DOMAIN o THEN Err("missing_field", "type")
    ELSE IF o["type"].k # "str" THEN Err("invalid_type", "variant identifier")
    ELSE ProtocolMessageType(o["type"].s, Drop(o, "type"))

ProtocolMessageOf(seq, t) ==
    IF ~seq.ok THEN seq
    ELSE IF ~t.ok THEN t
    ELSE Ok([seq |-> seq.val, type_ |-> t.val])

ProtocolMessage(j) ==
    IF j.k # "obj" THEN Err("invalid_type", "ProtocolMessage")
    ELSE ProtocolMessageOf(DecodeSeq("seq", j.o), DecodeProtocolMessageType(Drop(j.o, "seq")))

DecodeLib ==
    /\ pc = "wire"
    /\ out' = ProtocolMessage(wire)
    /\ pc' = "done"
    /\ UNCHANGED <<val, nset, sent, wire, edits, wire2, out2>>

NextLib == Encode \/ PutTop \/ DropTop \/ PutIn \/ DropIn \/ DecodeLib

SpecLib == Init /\ [][NextLib]_vars

LibCapabilitiesOf(r) == r.val.type_["Response"].response_type["Success"]["Initialize"]

DocumentedFlags == {Capabilities[i].w : i \in Flags("Capabilities")}

(* C13: decoding a successful initialize Response with the decoder of      *)
(* lib.rs gives, for every documented capability name, a flag of that name *)
(* that is true exactly when the name is a member of `body` with value     *)
(* true.                                                                   *)
C13_DocumentedFlags ==
    (pc = "done" /\ InitializeResponseWire /\ out.ok) =>
        \A w \in DocumentedFlags :
            TopIs(wire.o["body"], w, JBool(TRUE)) <=>
                \E i \in DOMAIN LibCapabilities :
                    LibCapabilities[i].w = w /\ LibCapabilitiesOf(out)[LibCapabilities[i].f]


RequiredOf(fs) == {i \in DOMAIN fs : fs[i].mode = "required"}

MissingIn(fs, o) == {i \in RequiredOf(fs) : fs[i].w \notin DOMAIN o}

PresentOk(fs, o) ==
    \A i \in DOMAIN fs :
        (fs[i].mode # "flatten" /\ fs[i].w \in DOMAIN o) => FieldPresent(fs[i], o[fs[i].w]).ok

WireContentKey(w) == IF WireKind(w) = "Request" THEN "arguments" ELSE "body"

WireVariant(w) == VariantByWire(WireCatalog(w), w.o[TagKey(WireKind(w))].s)

RecordWire(w) ==
    /\ WireKind(w) # "none"
    /\ SeqsValid(w)
    /\ TopStr(w, TagKey(WireKind(w)))
    /\ WireVariant(w).ok
    /\ WireVariant(w).val.payload \in StructNames
    /\ WireContentKey(w) \in DOMAIN w.o
    /\ w.o[WireContentKey(w)].k = "obj"

WireRecord(w) == StructDef(WireVariant(w).val.payload)

MissingFieldOf(w, name) ==
    IF WireKind(w) = "Response" THEN Custom(Err("missing_field", name)) ELSE Err("missing_field", name)

RecordsIn(ty) ==
    {ty}
    \cup {StructDef(ty)[i].ty : i \in {n \in DOMAIN StructDef(ty) : StructDef(ty)[n].ty \in StructNames}}
    \cup {VecElem(StructDef(ty)[i].ty) :
             i \in {n \in DOMAIN StructDef(ty) :
                       StructDef(ty)[n].ty \in VecTypes /\ VecElem(StructDef(ty)[n].ty) \in StructNames}}

Without(ty, name) == JObj(Drop(EncodeStruct(ty, Minimal(ty)), name))

SeqWellFormed(w) ==
    IF "seq" \in DOMAIN w.o
    THEN w.o["seq"].k = "num" /\ w.o["seq"].n.c = "PosInt"
    ELSE FALSE

(* C15: decoding an envelope gives an error and no ProtocolMessage when    *)
(* `type` is absent or is anything but the string "request", "response" or *)
(* "event", and when `seq` is absent, is not a number, or is a number that *)
(* is negative, not an integer or beyond 2^64-1 (which serde_json reads as *)
(* a float).  A message that decodes has a literal type and a u64 seq.     *)
C15_MalformedEnvelope ==
    pc = "done" =>
        /\ (WireKind(wire) = "none" \/ ~SeqWellFormed(wire)) => ~out.ok
        /\ out.ok => out.val.seq = wire.o["seq"].n.m

C15_Witness ==
    /\ pc = "done"
    /\ ProtocolMessage(sent).ok
    /\ \/ /\ edits = <<[op |-> "PutTop", key |-> "seq", value |-> JNum(NegInt(Limbs(1)))]>>
          /\ out = Err("invalid_value", "u64")
       \/ /\ edits = <<[op |-> "PutTop", key |-> "type", value |-> JStr("Request")]>>
          /\ out = Err("unknown_variant", "Request")


(* C16: an event envelope in the flat form -- `event` holding the tag      *)
(* string and `body` holding the payload, both members of the top-level    *)
(* object, as the encoder writes them -- decodes, as the request envelope  *)
(* with top-level `command` and `arguments` does.                          *)
C16_FlatEvent ==
    (pc = "done" /\ edits = <<>> /\ WireKind(wire) \in {"Event", "Request"} /\ TopStr(wire, TagKey(WireKind(wire)))) =>
        (out.ok <=> wire.o[TagKey(WireKind(wire))].s \in
                        (IF WireKind(wire) = "Event" THEN Tags(Event) ELSE Tags(LibRequest)))


(* C17: the encoding of every Response has the members `request_seq`,      *)
(* `command` and `success`; `success` is the boolean true for the success  *)
(* arm and the boolean false for the error arm and is never left out; the  *)
(* encoding of the error arm also has `message` and `body`.                *)
C17_ResponseMembers ==
    (pc # "build" /\ Kind(val) = "Response") =>
        /\ {"request_seq", "command", "success"} \subseteq DOMAIN sent.o
        /\ sent.o["request_seq"] = EncodeU64(val.content["Response"].request_seq)
        /\ sent.o["command"].k = "str"
        /\ sent.o["success"] = JBool(~IsErr(val))
        /\ IsErr(val) =>
              /\ {"message", "body"} \subseteq DOMAIN sent.o
              /\ sent.o["message"] = JStr(Payload(val).message)
              /\ sent.o["body"].k = "obj"
              /\ "error" \in DOMAIN sent.o["body"].o

C17_Witness ==
    /\ pc = "wire"
    /\ IsErr(val)
    /\ Payload(val).body.error = None
    /\ sent.o["success"] = JBool(FALSE)
    /\ sent.o["message"].k = "str"
    /\ sent.o["body"] = JObj("error" :> JNull)


ModuleEventWire(w) ==
    /\ WireKind(w) = "Event"
    /\ TopIs(w, "event", JStr("module"))
    /\ "body" \in DOMAIN w.o
    /\ w.o["body"].k = "obj"
    /\ "module" \in DOMAIN w.o["body"].o
    /\ w.o["body"].o["module"].k = "obj"
    /\ "id" \in DOMAIN w.o["body"].o["module"].o

WireModuleId(w) == w.o["body"].o["module"].o["id"]

WithModuleId(w, j) ==
    JObj(Put(w.o, "body", JObj(Put(w.o["body"].o, "module", JObj(Put(w.o["body"].o["module"].o, "id", j))))))

ModuleIdOf(r) == r.val.content["Event"]["Module"].module.id

IsWireInteger(j) == j.k = "num" /\ j.n.c \in {"PosInt", "NegInt"}

(* C18: in a module event that decodes when its Module id is 7, an id that *)
(* is an integer on the wire decodes to the integer alternative holding    *)
(* it, an id that is a string decodes to the string alternative holding    *)
(* it, and encoding the decoded id gives the wire value back.              *)
C18_ModuleId ==
    (pc = "done" /\ ModuleEventWire(wire)
       /\ DecodeMessage(WithModuleId(wire, JNum(PosInt(Limbs(7))))).ok
       /\ (IsWireInteger(WireModuleId(wire)) \/ WireModuleId(wire).k = "str")) =>
        /\ out.ok
        /\ DOMAIN ModuleIdOf(out) =
              (IF WireModuleId(wire).k = "str" THEN {"String"} ELSE {"Integer"})
        /\ EncodeModuleId(ModuleIdOf(out)) = WireModuleId(wire)
        /\ DecodeModuleId(EncodeModuleId(ModuleIdOf(out))) = Ok(ModuleIdOf(out))


RestartWire(w) ==
    /\ TopIs(w, "type", JStr("request"))
    /\ (TopIs(w, "command", JStr("attach")) \/ TopIs(w, "command", JStr("launch")))
    /\ "arguments" \in DOMAIN w.o
    /\ w.o["arguments"].k = "obj"

RestartArgs(r) ==
    r.val.content["Request"][VariantOf(r.val.content["Request"])]

WireRestart(a) ==
    IF "__restart" \in DOMAIN a
    THEN (IF a["__restart"] = JNull THEN None ELSE Some(a["__restart"]))
    ELSE None

(* C19: for Attach and Launch arguments the restart data is what the wire  *)
(* member `__restart` holds and nothing else: a member `restart` does not  *)
(* change it (Attach decodes as if the member were not there, Launch keeps *)
(* it as an entry of additional_attributes); and the encoding writes the   *)
(* data as `__restart`, a member `restart` being written only for an entry *)
(* of that name in Launch's additional_attributes.                         *)
C19_RestartName ==
    /\ (Decoded /\ RestartWire(wire) /\ out.ok) =>
          /\ RestartArgs(out).restart = WireRestart(wire.o["arguments"].o)
          /\ "restart" \in DOMAIN wire.o["arguments"].o =>
                IF TopIs(wire, "command", JStr("launch"))
                THEN TopIs(JObj(RestartArgs(out).additional_attributes), "restart",
                           wire.o["arguments"].o["restart"])
                ELSE out = DecodeMessage(JObj(Put(wire.o, "arguments",
                                                  JObj(Drop(wire.o["arguments"].o, "restart")))))
    /\ (pc \in {"again", "end"} /\ RestartWire(wire)) =>
          /\ RestartWire(wire2)
          /\ "__restart" \in DOMAIN wire2.o["arguments"].o <=> RestartArgs(out).restart # None
          /\ RestartArgs(out).restart # None =>
                wire2.o["arguments"].o["__restart"] = Unwrap(RestartArgs(out).restart)
          /\ "restart" \in DOMAIN wire2.o["arguments"].o =>
                /\ TopIs(wire2, "command", JStr("launch"))
                /\ TopIs(JObj(RestartArgs(out).additional_attributes), "restart",
                         wire2.o["arguments"].o["restart"])

C19_Witness ==
    /\ pc = "again"
    /\ RestartWire(wire)
    /\ TopIs(wire, "command", JStr("attach"))
    /\ edits = <<[op |-> "PutIn", key |-> "restart", value |-> JStr("x")]>>
    /\ out.ok
    /\ RestartArgs(out).restart = None
    /\ wire2.o["arguments"] = JObj(<<>>)


(* C20: a command tag is accepted by the Request decoder exactly when it   *)
(* is accepted by the SuccessResponse decoder: whatever string a request   *)
(* or successful response carries in `command` selects a variant of        *)
(* Request if and only if it selects a variant of SuccessResponse.         *)
C20_SameCommands ==
    (pc = "done" /\ WireKind(wire) \in {"Request", "Response"} /\ TopStr(wire, "command")) =>
        (VariantByWire(Request, wire.o["command"].s).ok
            <=> VariantByWire(SuccessResponse, wire.o["command"].s).ok)


ResponseRest(w) == Drop(Drop(Drop(w.o, "seq"), "type"), "request_seq")

InnerResult(w) ==
    IF w.o["success"].b THEN DecodeSuccessResponse(ResponseRest(w))
    ELSE DecodeStruct("ErrorResponse", JObj(ResponseRest(w)))

(* C21: when the payload of a Response -- the SuccessResponse selected by  *)
(* `success` true or the ErrorResponse selected by false -- fails to       *)
(* decode, the error of the whole decode is the error the payload decoder  *)
(* returned: the same kind with the same argument.                         *)
C21_ErrorUnchanged ==
    (ResponseWire /\ "success" \in DOMAIN wire.o) =>
        ((wire.o["success"].k = "bool" /\ ~InnerResult(wire).ok) => out = InnerResult(wire))


SetExceptionBreakpointsWire ==
    /\ ResponseWire
    /\ TopIs(wire, "success", JBool(TRUE))
    /\ TopIs(wire, "command", JStr("setExceptionBreakpoints"))

BodyWithoutBreakpoints(w) ==
    IF "body" \in DOMAIN w.o
    THEN w.o["body"].k = "obj" /\ "breakpoints" \notin DOMAIN w.o["body"].o
    ELSE FALSE

(* C22: a successful setExceptionBreakpoints Response decodes when `body`  *)
(* is absent and when `body` is an object without `breakpoints`, and in    *)
(* both cases the decoded breakpoints are None.                            *)
C22_OptionalBody ==
    (SetExceptionBreakpointsWire /\ ("body" \notin DOMAIN wire.o \/ BodyWithoutBreakpoints(wire))) =>
        /\ out.ok
        /\ out.val.content["Response"].result["Ok"]["SetExceptionBreakpoints"].breakpoints = None


(***************************************************************************)
(* Concurrent calls.  Each call of decode or encode runs on its own thread *)
(* in two steps: it first fills its working value (the serde_json::Value   *)
(* that deserialize_response_result buffers, the TaggedContent that        *)
(* serialize_response_result builds), then computes its result from it.    *)
(* The working value is a local of the call.  In this specification `val`  *)
(* holds the calls' inputs, `wire` the working values by slot, `out` the   *)
(* results, `pc` the calls' positions and `edits` the schedule so far.     *)
(***************************************************************************)
MaxCalls == 2

Calls == 1 .. MaxCalls

CallMessages ==
    {Message0("Request", "Launch" :> Minimal("LaunchRequestArguments")),
     Message0("Request", "Continue" :> Minimal("ContinueRequestArguments")),
     Message0("Response", Response0("Ok" :> ("Launch" :> Unit))),
     Message0("Response", [request_seq |-> U64Max, result |-> "Ok" :> ("Launch" :> Unit)]),
     Message0("Response", Response0("Err" :> Minimal("ErrorResponse"))),
     Message0("Event", "Initialized" :> Unit)}

CallInputs ==
    {[op |-> "decode", arg |-> EncodeMessage(m)] : m \in CallMessages}
    \cup {[op |-> "decode", arg |-> JObj(Drop(EncodeMessage(m).o, "command"))] :
             m \in {Message0("Response", Response0("Ok" :> ("Launch" :> Unit)))}}
    \cup {[op |-> "encode", arg |-> m] : m \in CallMessages}

SlotShared(t) == 1

Slot(t) == t

Working(c) == IF c.op = "decode" THEN c.arg ELSE EncodeMessage(c.arg)

Result(c, w) == IF c.op = "decode" THEN DecodeMessage(w) ELSE Ok(w)

InitCalls ==
    /\ pc = [t \in Calls |-> "start"]
    /\ val \in [Calls -> CallInputs]
    /\ wire = [t \in Calls |-> NoWire]
    /\ out = [t \in Calls |-> NoOut]
    /\ edits = <<>>
    /\ nset = 0
    /\ sent = NoWire
    /\ wire2 = NoWire
    /\ out2 = NoOut

Buffer(t) ==
    /\ pc[t] = "start"
    /\ wire' = [wire EXCEPT ![Slot(t)] = Working(val[t])]
    /\ pc' = [pc EXCEPT ![t] = "buffered"]
    /\ edits' = Append(edits, t)
    /\ UNCHANGED <<val, nset, sent, out, wire2, out2>>

Return(t) ==
    /\ pc[t] = "buffered"
    /\ out' = [out EXCEPT ![t] = Result(val[t], wire[Slot(t)])]
    /\ pc' = [pc EXCEPT ![t] = "done"]
    /\ edits' = Append(edits, t)
    /\ UNCHANGED <<val, nset, sent, wire, wire2, out2>>

NextCalls == \E t \in Calls : Buffer(t) \/ Return(t)

SpecCalls == InitCalls /\ [][NextCalls]_vars

Alone(c) == IF c.op = "decode" THEN DecodeMessage(c.arg) ELSE Ok(EncodeMessage(c.arg))

(* C23: under every interleaving of the steps of concurrent decode and     *)
(* encode calls, each call that has returned has the result the same call  *)
(* gives when it runs alone, a function of its own input; so a Response    *)
(* whose request_seq matches no Request and an envelope that repeats a     *)
(* sequence number decode like any other message.                          *)
C23_CallsIndependent ==
    \A t \in Calls :
        pc[t] = "done" =>
            /\ out[t] = Alone(val[t])
            /\ val[t].op = "decode" /\ val[t].arg \in {EncodeMessage(m) : m \in CallMessages} => out[t].ok

C23_Witness ==
    /\ edits = <<1, 2, 1, 2>>
    /\ val[1] = [op |-> "decode", arg |-> EncodeMessage(Message0("Request", "Launch" :> Minimal("LaunchRequestArguments")))]
    /\ val[2] = [op |-> "decode",
                  arg |-> EncodeMessage(Message0("Response", [request_seq |-> U64Max, result |-> "Ok" :> ("Launch" :> Unit)]))]
    /\ out[1].ok
    /\ out[2] = Ok(Message0("Response", [request_seq |-> U64Max, result |-> "Ok" :> ("Launch" :> Unit)]))


HandleNames == {"variablesReference", "processId", "shellProcessId", "systemProcessId"}

HandleFields(fs) == {i \in DOMAIN fs : fs[i].w \in HandleNames}

HandleValues(fs, v) ==
    UNION {IF fs[i].mode = "option" THEN v[fs[i].f] ELSE {v[fs[i].f]} : i \in HandleFields(fs)}

TooLarge(j) == j.k = "num" /\ j.n.c = "PosInt" /\ ~FitsI32(j.n.m)

(* C24: every variablesReference and process id of a decoded message and   *)
(* of the message written from it is an integer from 0 to 2147483647, and  *)
(* a wire value above 2147483647 in such a member makes the decode fail.   *)
C24_HandleRange ==
    (Decoded /\ RecordWire(wire)) =>
        /\ out.ok =>
              \A x \in HandleValues(WireRecord(wire), UnionOf(out)[WireVariant(wire).val.v]) :
                  0 <= x /\ x <= MaxI32
        /\ \A i \in HandleFields(WireRecord(wire)) :
              /\ TopIs(wire.o[WireContentKey(wire)], WireRecord(wire)[i].w, JNum(PosInt(Two31))) => ~out.ok
              /\ (pc \in {"again", "end"} /\ WireRecord(wire)[i].w \in DOMAIN wire2.o[WireContentKey(wire)].o) =>
                    wire2.o[WireContentKey(wire)].o[WireRecord(wire)[i].w].n.c = "PosInt"


EnumFields(fs) == {i \in DOMAIN fs : fs[i].ty \in EnumNames}

UnlistedIn(fs, o) ==
    {i \in EnumFields(fs) :
        IF fs[i].w \in DOMAIN o
        THEN o[fs[i].w].k = "str" /\ o[fs[i].w].s \notin Tags(EnumDef(fs[i].ty))
        ELSE FALSE}

(* C25: when a member of the payload whose field has an enumeration type   *)
(* holds a string that is not one of the enumeration's wire values, the    *)
(* decode of the whole message fails; when every other member present is   *)
(* decodable and no required member is absent, the error is the            *)
(* unknown-variant error for that string.                                  *)
C25_EnumMembership ==
    (Decoded /\ RecordWire(wire) /\ UnlistedIn(WireRecord(wire), wire.o[WireContentKey(wire)].o) # {}) =>
        /\ ~out.ok
        /\ (Len(edits) = 1 /\ DecodeMessage(sent).ok) =>
              \E i \in UnlistedIn(WireRecord(wire), wire.o[WireContentKey(wire)].o) :

                 out \in {Err("unknown_variant", wire.o[WireContentKey(wire)].o[WireRecord(wire)[i].w].s),
                          Custom(Err("unknown_variant", wire.o[WireContentKey(wire)].o[WireRecord(wire)[i].w].s))}

C25_Witness ==
    /\ pc = "done"
    /\ edits = <<[op |-> "PutIn", key |-> "category", value |-> JStr("x")]>>
    /\ TopIs(wire, "event", JStr("output"))
    /\ DecodeMessage(sent).ok
    /\ out = Err("unknown_variant", "x")


(***************************************************************************)
(* Encoding to text.  The derived serializers write the members of a       *)
(* record in declaration order; the entries of a std HashMap are written   *)
(* in the order its iterator yields them, which depends on the RandomState *)
(* the map instance was created with and is any order of its keys.  In     *)
(* this specification `val` holds two constructed values, `edits` the      *)
(* iteration order of each value's map, `out` and `out2` the texts of the  *)
(* first and second call on each value, and `pc` the positions.            *)
(***************************************************************************)
MaxEntries == 2

KeyNames == <<"HOME", "PATH", "TERM", "USER">>

EntrySets == {S \in SUBSET {KeyNames[i] : i \in 1 .. MaxEntries} : TRUE}

WithEnv(S) ==
    Message0("Request",
             "RunInTerminal" :> [Minimal("RunInTerminalRequestArguments") EXCEPT
                                   !.env = [x \in S |-> Some("v")]])

WithVariables(S) ==
    Message0("Response",
             Response0("Err" :> [Minimal("ErrorResponse") EXCEPT
                                   !.body = [error |-> Some([Minimal("Message") EXCEPT
                                                               !.variables = [x \in S |-> "v"]])]]))

TextMessages == {WithEnv(S) : S \in EntrySets} \cup {WithVariables(S) : S \in EntrySets}

MapOf(m) ==
    IF Kind(m) = "Request" THEN Payload(m).env ELSE Unwrap(Payload(m).body.error).variables

IterationOrders(S) ==
    {s \in [1 .. Cardinality(S) -> S] : \A i, j \in 1 .. Cardinality(S) : s[i] = s[j] => i = j}

ToText(m, iter) ==
    [members |-> InWireOrder(DOMAIN EncodeMessage(m).o), json |-> EncodeMessage(m), entries |-> iter]

Values == {1, 2}

InitText ==
    /\ pc = [i \in Values |-> "new"]
    /\ val \in [Values -> TextMessages]
    /\ edits = [i \in Values |-> <<>>]
    /\ out = [i \in Values |-> NoOut]
    /\ out2 = [i \in Values |-> NoOut]
    /\ nset = 0
    /\ sent = NoWire
    /\ wire = NoWire
    /\ wire2 = NoWire

Construct(i) ==
    /\ pc[i] = "new"
    /\ \E s \in IterationOrders(DOMAIN MapOf(val[i])) : edits' = [edits EXCEPT ![i] = s]
    /\ pc' = [pc EXCEPT ![i] = "built"]
    /\ UNCHANGED <<val, nset, sent, wire, out, wire2, out2>>

WriteText(i) ==
    /\ pc[i] = "built"
    /\ out' = [out EXCEPT ![i] = Ok(ToText(val[i], edits[i]))]
    /\ pc' = [pc EXCEPT ![i] = "written"]
    /\ UNCHANGED <<val, nset, sent, wire, edits, wire2, out2>>

WriteTextAgain(i) ==
    /\ pc[i] = "written"
    /\ out2' = [out2 EXCEPT ![i] = Ok(ToText(val[i], edits[i]))]
    /\ pc' = [pc EXCEPT ![i] = "rewritten"]
    /\ UNCHANGED <<val, nset, sent, wire, edits, out, wire2>>

NextText == \E i \in Values : Construct(i) \/ WriteText(i) \/ WriteTextAgain(i)

SpecText == InitText /\ [][NextText]_vars

(* C26: the text written for a value depends on the value alone: two equal *)
(* values, maps included, are written as the same text, members and map    *)
(* entries in the same order, and a second call on a value writes what the *)
(* first call wrote.                                                       *)
C26_EqualValuesEqualText ==
    /\ \A i \in Values : pc[i] = "rewritten" => out2[i] = out[i]
    /\ (\A i \in Values : pc[i] \in {"written", "rewritten"}) =>
          \A i, j \in Values : val[i] = val[j] => out[i] = out[j]


(* C27: a decoded value is in normal form -- whenever a wire object        *)
(* decodes, encoding the decoded value and decoding that again gives the   *)
(* same value, also when the object held null in an opaque optional member *)
(* or wrote a defaulted member out.                                        *)
C27_NormalForm ==
    /\ pc \in {"again", "end"} => DecodeMessage(wire2) = out
    /\ pc = "end" => out2 = out

C27_Witness ==
    /\ pc = "end"
    /\ LaunchWire
    /\ edits = <<[op |-> "PutIn", key |-> "__restart", value |-> JNull]>>
    /\ out.ok
    /\ LaunchArgs(out).restart = None
    /\ wire2 # wire
    /\ out2 = out


NoErrorDetail(w) ==
    /\ TopStr(w, "command")
    /\ TopStr(w, "message")
    /\ "body" \in DOMAIN w.o
    /\ w.o["body"].k = "obj"
    /\ ("error" \in DOMAIN w.o["body"].o => w.o["body"].o["error"] = JNull)

(* C28: a Response with `success` false decodes only if `command`,         *)
(* `message` and `body` are all members of it; it does decode when they    *)
(* are strings and an object, `body` being empty or holding `error: null`, *)
(* and the decoded error detail is then None.                              *)
C28_ErrorShape ==
    ErrorWire =>
        /\ out.ok => {"command", "message", "body"} \subseteq DOMAIN wire.o
        /\ NoErrorDetail(wire) => (out.ok /\ Arm(out) = "Err" /\ ErrorOf(out).body.error = None)

C28_Witness ==
    /\ pc = "done"
    /\ ErrorWire
    /\ edits = <<[op |-> "DropIn", key |-> "error"]>>
    /\ TopIs(sent, "body", JObj("error" :> JNull))
    /\ TopIs(wire, "body", JObj(<<>>))
    /\ out.ok
    /\ ErrorOf(out).body.error = None


PayloadKey(w) == IF WireKind(w) = "Request" THEN "arguments" ELSE "body"

UnitWire(w) ==
    /\ WireKind(w) # "none"
    /\ SeqsValid(w)
    /\ TopStr(w, TagKey(WireKind(w)))
    /\ w.o[TagKey(WireKind(w))].s \in UnitTags(WireCatalog(w))
    /\ WireKind(w) = "Response" => TopIs(w, "success", JBool(TRUE))

(* C29: a wire object whose tag names a variant without payload decodes    *)
(* exactly when its `arguments` / `body` member is absent or null; any     *)
(* other payload, the empty object included, makes the decode fail.        *)
C29_UnitPayload ==
    (Decoded /\ UnitWire(wire)) =>
        (out.ok <=> (PayloadKey(wire) \notin DOMAIN wire.o \/ TopIs(wire, PayloadKey(wire), JNull)))

C29_Witness ==
    /\ pc = "done"
    /\ UnitWire(wire)
    /\ WireKind(wire) = "Request"
    /\ edits = <<[op |-> "PutTop", key |-> "arguments", value |-> JObj(<<>>)]>>
    /\ out = Err("invalid_type", "unit variant")


(***************************************************************************)
(* Builders.  Every request-arguments record derives TypedBuilder; a field *)
(* without a builder attribute must be set before build() is callable, a   *)
(* field marked `default` takes Default::default() of its type and one     *)
(* marked `default = true` takes true.  Each setter can be called once.    *)
(* The table lists, per record, the fields with their declared type and    *)
(* builder attribute ("" for none).                                        *)
(***************************************************************************)
Bld(f, ty, attr) == [f |-> f, ty |-> ty, attr |-> attr]

TypedBuilder(ty) ==
    CASE ty = "AttachRequestArguments" ->
            << Bld("restart", "Option<Value>", "default") >>
      [] ty = "CancelRequestArguments" ->
            << Bld("request_id", "Option<i32>", "default"),
               Bld("progress_id", "Option<String>", "default") >>
      [] ty = "ContinueRequestArguments" ->
            << Bld("thread_id", "i32", "") >>
      [] ty = "DisconnectRequestArguments" ->
            << Bld("restart", "bool", "default"),
               Bld("terminate_debuggee", "Option<bool>", "default"),
               Bld("suspend_debuggee", "bool", "default") >>
      [] ty = "InitializeRequestArguments" ->
            << Bld("client_id", "Option<String>", "default"),
               Bld("client_name", "Option<String>", "default"),
               Bld("adapter_id", "String", ""),
               Bld("locale", "Option<String>", "default"),
               Bld("lines_start_at_1", "bool", "default = true"),
               Bld("columns_start_at_1", "bool", "default = true"),
               Bld("path_format", "PathFormat", "default"),
               Bld("supports_variable_type", "bool", "default"),
               Bld("supports_variable_paging", "bool", "default"),
               Bld("supports_run_in_terminal_request", "bool", "default"),
               Bld("supports_memory_references", "bool", "default"),
               Bld("supports_progress_reporting", "bool", "default"),
               Bld("supports_invalidated_event", "bool", "default") >>
      [] ty = "LaunchRequestArguments" ->
            << Bld("no_debug", "bool", "default"),
               Bld("restart", "Option<Value>", "default"),
               Bld("additional_attributes", "Map<String,Value>", "default") >>
      [] ty = "ModulesRequestArguments" ->
            << Bld("start_module", "i32", "default"),
               Bld("module_count", "i32", "default") >>
      [] ty = "NextRequestArguments" ->
            << Bld("thread_id", "i32", ""),
               Bld("granularity", "SteppingGranularity", "default") >>
      [] ty = "RunInTerminalRequestArguments" ->
            << Bld("kind", "Option<TerminalKind>", "default"),
               Bld("title", "Option<String>", "default"),
               Bld("cwd", "String", ""),
               Bld("args", "Vec<String>", ""),
               Bld("env", "HashMap<String,Option<String>>", "default") >>
      [] ty = "SetBreakpointsRequestArguments" ->
            << Bld("source", "Source", ""),
               Bld("breakpoints", "Vec<SourceBreakpoint>", "default"),
               Bld("lines", "Vec<i32>", "default"),
               Bld("source_modified", "bool", "default") >>
      [] ty = "TerminateRequestArguments" ->
            << Bld("restart", "bool", "default") >>
      [] ty = "TerminateThreadsRequestArguments" ->
            << Bld("thread_ids", "Vec<i32>", "default") >>

RequestArguments == {Request[i].payload : i \in Modelled(Request)} \ {""}

OptionTypes == {"Option<Value>", "Option<i32>", "Option<String>", "Option<bool>", "Option<TerminalKind>"}

BuilderField(ty, f) == TypedBuilder(ty)[CHOOSE i \in DOMAIN TypedBuilder(ty) : TypedBuilder(ty)[i].f = f]

BuilderFields(ty) == {TypedBuilder(ty)[i].f : i \in DOMAIN TypedBuilder(ty)}

RequiredFields(ty) == {f \in BuilderFields(ty) : BuilderField(ty, f).attr = ""}

BuilderDefaultOfType(b) == IF b.ty \in OptionTypes THEN None ELSE DefaultOf(b.ty)

BuilderDefault(b) ==
    IF b.attr = "default = true" THEN TRUE
    ELSE IF b.ty \in OptionTypes THEN None
    ELSE DefaultOf(b.ty)

build(ty, fields) ==
    [f \in BuilderFields(ty) |->
        IF f \in DOMAIN fields THEN fields[f] ELSE BuilderDefault(BuilderField(ty, f))]

SerdeField(ty, f) == StructDef(ty)[CHOOSE i \in DOMAIN StructDef(ty) : StructDef(ty)[i].f = f]

SetterValues(ty, f) == FieldSamples(SerdeField(ty, f), MaxDepth)

RequiredOnly(ty, v) ==
    JObj([w \in {SerdeField(ty, f).w : f \in RequiredFields(ty)} |->
            EncodeField(FieldByWire(StructDef(ty), w), v[FieldByWire(StructDef(ty), w).f])])

InitBuild ==
    /\ pc = "builder"
    /\ val \in {[ty |-> ty, fields |-> <<>>] : ty \in RequestArguments}
    /\ nset = 0
    /\ sent = NoWire
    /\ wire = NoWire
    /\ edits = <<>>
    /\ out = NoOut
    /\ wire2 = NoWire
    /\ out2 = NoOut

SetRequired ==
    /\ pc = "builder"
    /\ \E f \in RequiredFields(val.ty) \ DOMAIN val.fields :
         \E x \in SetterValues(val.ty, f) :
            val' = [val EXCEPT !.fields = Put(val.fields, f, x)]
    /\ UNCHANGED <<pc, nset, sent, wire, edits, out, wire2, out2>>

SetOptional ==
    /\ pc = "builder"
    /\ nset < MaxSet
    /\ \E f \in (BuilderFields(val.ty) \ RequiredFields(val.ty)) \ DOMAIN val.fields :
         \E x \in SetterValues(val.ty, f) :
            val' = [val EXCEPT !.fields = Put(val.fields, f, x)]
    /\ nset' = nset + 1
    /\ UNCHANGED <<pc, sent, wire, edits, out, wire2, out2>>

Build ==
    /\ pc = "builder"
    /\ RequiredFields(val.ty) \subseteq DOMAIN val.fields
    /\ val' = [val EXCEPT !.fields = build(val.ty, val.fields)]
    /\ pc' = "built"
    /\ UNCHANGED <<nset, sent, wire, edits, out, wire2, out2>>

WriteRequired ==
    /\ pc = "built"
    /\ sent' = JObj(EncodeStruct(val.ty, val.fields))
    /\ wire' = RequiredOnly(val.ty, val.fields)
    /\ pc' = "wire"
    /\ UNCHANGED <<val, nset, edits, out, wire2, out2>>

DecodeArguments ==
    /\ pc = "wire"
    /\ out' = DecodeType(val.ty, wire)
    /\ pc' = "done"
    /\ UNCHANGED <<val, nset, sent, wire, edits, wire2, out2>>

NextBuild == SetRequired \/ SetOptional \/ Build \/ WriteRequired \/ DecodeArguments

SpecBuild == InitBuild /\ [][NextBuild]_vars

Carries(ty, w, v) ==
    \A f \in RequiredFields(ty) :
        IF SerdeField(ty, f).w \in DOMAIN w.o
        THEN DecodeType(SerdeField(ty, f).ty, w.o[SerdeField(ty, f).w]) = Ok(v[f])
        ELSE FALSE

(* C30: when only the required fields of a request-arguments record were   *)
(* set on its builder, and the wire object holds just those fields with    *)
(* the values given to the builder, the decoded value equals the built     *)
(* one: every builder default is the decode default of the same field.     *)
C30_BuilderDefaults ==
    (pc = "done" /\ nset = 0 /\ Carries(val.ty, wire, val.fields)) => out = Ok(val.fields)

C30_Witness ==
    /\ pc = "done"
    /\ nset = 0
    /\ val.ty = "InitializeRequestArguments"
    /\ DOMAIN wire.o = {"adapterID"}
    /\ Carries(val.ty, wire, val.fields)
    /\ out.ok
    /\ out.val.lines_start_at_1 = TRUE
    /\ out.val.path_format = "Path"
    /\ out.val = val.fields


====
